---- MODULE Spec2Model ----
(***************************************************************************)
(* Transport-and-caching layer of permission-sdk: HTTPTransport.request    *)
(* (cache lookup, retry loop, status mapping, write-through, invalidation) *)
(* over the PermissionCacheManager and the cache stores, and the retry     *)
(* loop of AsyncHTTPTransport.request.                                     *)
(*                                                                         *)
(* Python strings are modelled as sequences of one-character strings so    *)
(* that key building, sorting, substring tests and glob matching are       *)
(* computed, not assumed.  None and "" (both falsy) are the empty sequence.*)
(***************************************************************************)
EXTENDS Integers, Sequences, FiniteSets, TLC

\* ---------------------------------------------------------------- bounds
MaxRequests == 3        \* requests started in one behaviour
MaxTime == 2            \* clock ticks (seconds) in one behaviour
MaxRetriesBound == 2    \* largest config.max_retries explored
MaxSubjects == 2        \* longest subject list of a check / batch mutation
MaxSets == 2            \* results stored through the cache manager in one behaviour
MaxChecks == 2          \* longest list of checks of a batch

\* --------------------------------------------------------------- strings
None == << >>

\* code points of the characters that occur in the model (Python compares
\* strings by code point)
CodePoint(ch) ==
    CASE ch = "-" -> 45  [] ch = "/" -> 47  [] ch = "0" -> 48
      [] ch = "1" -> 49
      [] ch = "2" -> 50  [] ch = ":" -> 58  [] ch = "[" -> 91
      [] ch = "]" -> 93  [] ch = "a" -> 97  [] ch = "c" -> 99
      [] ch = "d" -> 100 [] ch = "e" -> 101 [] ch = "g" -> 103
      [] ch = "h" -> 104 [] ch = "i" -> 105 [] ch = "k" -> 107
      [] ch = "l" -> 108 [] ch = "m" -> 109 [] ch = "n" -> 110
      [] ch = "o" -> 111 [] ch = "p" -> 112 [] ch = "r" -> 114
      [] ch = "s" -> 115 [] ch = "t" -> 116 [] ch = "u" -> 117
      [] ch = "v" -> 118 [] ch = "y" -> 121 [] ch = "|" -> 124
      [] ch = "*" -> 42  [] ch = "?" -> 63  [] ch = "!" -> 33
      [] ch = " " -> 32  [] ch = "\"" -> 34 [] ch = "," -> 44
      [] ch = "_" -> 95  [] ch = "b" -> 98  [] ch = "j" -> 106
      [] ch = "{" -> 123 [] ch = "}" -> 125

\* a < b for Python str
RECURSIVE StrLess(_, _)
StrLess(a, b) ==
    IF b = << >> THEN FALSE
    ELSE IF a = << >> THEN TRUE
    ELSE IF CodePoint(Head(a)) < CodePoint(Head(b)) THEN TRUE
    ELSE IF CodePoint(Head(a)) > CodePoint(Head(b)) THEN FALSE
    ELSE StrLess(Tail(a), Tail(b))

\* sorted(list) for a list of str
RECURSIVE Insert(_, _)
Insert(x, l) ==
    IF l = << >> THEN << x >>
    ELSE IF StrLess(Head(l), x) \/ Head(l) = x THEN << Head(l) >> \o Insert(x, Tail(l))
    ELSE << x >> \o l

RECURSIVE sorted(_)
sorted(l) == IF l = << >> THEN << >> ELSE Insert(Head(l), sorted(Tail(l)))

\* sep.join(parts)
RECURSIVE join(_, _)
join(sep, parts) ==
    IF parts = << >> THEN << >>
    ELSE IF Len(parts) = 1 THEN Head(parts)
    ELSE Head(parts) \o sep \o join(sep, Tail(parts))

\* needle in hay (Python substring test)
Contains(hay, needle) ==
    \E i \in 0..(Len(hay) - Len(needle)) : SubSeq(hay, i + 1, i + Len(needle)) = needle

\* set of the elements of a list
Elems(l) == { l[i] : i \in 1..Len(l) }

\* x or default
Or(x, default) == IF x = None THEN default ELSE x

\* ------------------------------------------------------ fnmatch.fnmatch
\* position of the "]" that closes the bracket expression opened at
\* pat[i-1] = "[", or 0 when there is none (then "[" is a literal)
RECURSIVE FindClose(_, _)
FindClose(pat, j) ==
    IF j > Len(pat) THEN 0
    ELSE IF pat[j] = "]" THEN j
    ELSE FindClose(pat, j + 1)

ClassEnd(pat) ==
    LET j1 == IF Len(pat) >= 2 /\ pat[2] = "!" THEN 3 ELSE 2
        j2 == IF j1 <= Len(pat) /\ pat[j1] = "]" THEN j1 + 1 ELSE j1
    IN  FindClose(pat, j2)

\* does character ch belong to the bracket expression with body stuff
\* (no "-" ranges occur in the model's alphabet of identifiers)
InClass(ch, stuff) ==
    IF stuff = << "!" >> THEN TRUE
    ELSE IF Head(stuff) = "!" THEN ch \notin Elems(Tail(stuff))
    ELSE ch \in Elems(stuff)

\* fnmatch.fnmatch(name, pat) on POSIX (normcase is the identity)
RECURSIVE fnmatch(_, _)
fnmatch(name, pat) ==
    IF pat = << >> THEN name = << >>
    ELSE IF Head(pat) = "*" THEN
        \/ fnmatch(name, Tail(pat))
        \/ name # << >> /\ fnmatch(Tail(name), pat)
    ELSE IF name = << >> THEN FALSE
    ELSE IF Head(pat) = "?" THEN fnmatch(Tail(name), Tail(pat))
    ELSE IF Head(pat) = "[" /\ ClassEnd(pat) # 0 THEN
        /\ InClass(Head(name), SubSeq(pat, 2, ClassEnd(pat) - 1))
        /\ fnmatch(Tail(name), SubSeq(pat, ClassEnd(pat) + 1, Len(pat)))
    ELSE Head(name) = Head(pat) /\ fnmatch(Tail(name), Tail(pat))

\* ------------------------------------------------------------ endpoints
EP_check == << "/", "a", "p", "i", "/", "v", "1", "/", "p", "e", "r", "m", "i", "s", "s", "i", "o", "n", "s", "/", "c", "h", "e", "c", "k" >>
EP_check_many == << "/", "a", "p", "i", "/", "v", "1", "/", "p", "e", "r", "m", "i", "s", "s", "i", "o", "n", "s", "/", "c", "h", "e", "c", "k", "-", "m", "a", "n", "y" >>
EP_grant == << "/", "a", "p", "i", "/", "v", "1", "/", "p", "e", "r", "m", "i", "s", "s", "i", "o", "n", "s", "/", "g", "r", "a", "n", "t" >>
EP_grant_many == << "/", "a", "p", "i", "/", "v", "1", "/", "p", "e", "r", "m", "i", "s", "s", "i", "o", "n", "s", "/", "g", "r", "a", "n", "t", "-", "m", "a", "n", "y" >>
EP_revoke == << "/", "a", "p", "i", "/", "v", "1", "/", "p", "e", "r", "m", "i", "s", "s", "i", "o", "n", "s", "/", "r", "e", "v", "o", "k", "e" >>
EP_revoke_many == << "/", "a", "p", "i", "/", "v", "1", "/", "p", "e", "r", "m", "i", "s", "s", "i", "o", "n", "s", "/", "r", "e", "v", "o", "k", "e", "-", "m", "a", "n", "y" >>
EP_permissions == << "/", "a", "p", "i", "/", "v", "1", "/", "p", "e", "r", "m", "i", "s", "s", "i", "o", "n", "s" >>
EP_limits_check == << "/", "a", "p", "i", "/", "v", "1", "/", "l", "i", "m", "i", "t", "s", "/", "c", "h", "e", "c", "k" >>

\* the substrings the transport looks for in an endpoint
M_permissions_check == << "/", "p", "e", "r", "m", "i", "s", "s", "i", "o", "n", "s", "/", "c", "h", "e", "c", "k" >>
M_permissions_check_many == << "/", "p", "e", "r", "m", "i", "s", "s", "i", "o", "n", "s", "/", "c", "h", "e", "c", "k", "-", "m", "a", "n", "y" >>
M_permissions_grant == << "/", "p", "e", "r", "m", "i", "s", "s", "i", "o", "n", "s", "/", "g", "r", "a", "n", "t" >>
M_permissions_grant_many == << "/", "p", "e", "r", "m", "i", "s", "s", "i", "o", "n", "s", "/", "g", "r", "a", "n", "t", "-", "m", "a", "n", "y" >>
M_permissions_revoke == << "/", "p", "e", "r", "m", "i", "s", "s", "i", "o", "n", "s", "/", "r", "e", "v", "o", "k", "e" >>
M_permissions_revoke_many == << "/", "p", "e", "r", "m", "i", "s", "s", "i", "o", "n", "s", "/", "r", "e", "v", "o", "k", "e", "-", "m", "a", "n", "y" >>
M_grant_many == << "/", "g", "r", "a", "n", "t", "-", "m", "a", "n", "y" >>
M_revoke_many == << "/", "r", "e", "v", "o", "k", "e", "-", "m", "a", "n", "y" >>
M_grant == << "/", "g", "r", "a", "n", "t" >>
M_revoke == << "/", "r", "e", "v", "o", "k", "e" >>

\* a classifier that takes every POST whose path has a "/check" for a
\* permission check
_is_check_request_anyCheck(method, endpoint) ==
    method = "POST" /\ Contains(endpoint, << "/", "c", "h", "e", "c", "k" >>)

\* HTTPTransport._is_check_request
_is_check_request(method, endpoint) ==
    method = "POST" /\ (Contains(endpoint, M_permissions_check)
                        \/ Contains(endpoint, M_permissions_check_many))

\* HTTPTransport._is_grant_request
_is_grant_request(method, endpoint) ==
    method = "POST" /\ (Contains(endpoint, M_permissions_grant)
                        \/ Contains(endpoint, M_permissions_grant_many))

\* HTTPTransport._is_revoke_request
_is_revoke_request(method, endpoint) ==
    method = "POST" /\ (Contains(endpoint, M_permissions_revoke)
                        \/ Contains(endpoint, M_permissions_revoke_many))

\* ------------------------------------------------- identifiers and bodies
\* subject identifiers: a validated "type:id" one and one that only passes
\* when identifier validation is off (check_permission never validates)
SubjValid == << "u", ":", "1" >>
SubjBracket == << "u", "[", "1", "]" >>
Subjects == { SubjValid, SubjBracket }

Scope == << "d" >>
Action == << "r" >>
Tenants == { None }

\* lists of subjects of length lo..hi
SubjectLists(lo, hi) == UNION { [1..n -> Subjects] : n \in lo..hi }

\* a request body: truthy says whether `json` is a non-empty dict; subjects
\* is json["subjects"]; subject is json["subject"]; items lists the
\* "subject" of every element of json["grants"] / json["revocations"]
Body(truthy, subjects, subject, items, tenant) ==
    [truthy |-> truthy, subjects |-> subjects, subject |-> subject,
     items |-> items, scope |-> Scope, action |-> Action,
     tenant_id |-> tenant, object_id |-> None]

Req(method, endpoint, json) == [method |-> method, endpoint |-> endpoint, json |-> json]

NoBody == Body(FALSE, << >>, None, << >>, None)

\* lists without repetition
Distinct(l) == \A i, j \in 1..Len(l) : i # j => l[i] # l[j]

CheckRequests ==
    { Req("POST", EP_check, Body(TRUE, l, None, << >>, t)) :
        l \in { x \in SubjectLists(1, MaxSubjects) : Distinct(x) }, t \in Tenants }
    \cup { Req("POST", EP_check, NoBody),
           Req("POST", EP_check_many, Body(TRUE, << >>, None, << >>, None)) }

SingleMutationRequests ==
    { Req("POST", e, Body(TRUE, << >>, s, << >>, t)) :
        e \in { EP_grant, EP_revoke }, s \in Subjects, t \in Tenants }

BatchMutationRequests ==
    { Req("POST", e, Body(TRUE, << >>, None, l, None)) :
        e \in { EP_grant_many, EP_revoke_many },
        l \in { x \in SubjectLists(MaxSubjects, MaxSubjects) : Distinct(x) /\ x = sorted(x) } }

MutationRequests == SingleMutationRequests \cup BatchMutationRequests

OtherRequests ==
    { Req("GET", EP_permissions, NoBody),
      Req("POST", EP_limits_check, Body(TRUE, << >>, None, << >>, None)) }

Requests == CheckRequests \cup MutationRequests \cup OtherRequests

\* subjects a mutation body names (what the server changes)
NamedSubjects(r) ==
    (IF r.json.subject = None THEN {} ELSE { r.json.subject }) \cup Elems(r.json.items)

\* ------------------------------------------------------------- SDKConfig
cache_prefix == << "p" >>
Timeouts == { 5, 30 }
CacheTtls == { 1 }
DefaultRetryOnStatus == { 429, 500, 502, 503, 504 }
\* retry_on_status is any list of integers: the default and one other
RetryOnStatusSets == { DefaultRetryOnStatus, { 409 } }

Configs ==
    [ max_retries : 0..MaxRetriesBound,
      timeout : Timeouts,
      retry_on_status : RetryOnStatusSets,
      cache_enabled : BOOLEAN,
      cache_type : { "redis", "memory", "none" },
      cache_ttl : CacheTtls ]

\* ------------------------------------------------ PermissionCacheManager
S_check == << "c", "h", "e", "c", "k" >>
S_null == << "n", "u", "l", "l" >>

\* a key built from the subjects in the order given
_build_check_key_unsorted(subjects, scope, action, tenant_id, object_id) ==
    join(<< ":" >>, << cache_prefix, S_check, join(<< "|" >>, subjects), scope, action,
                      Or(tenant_id, S_null), Or(object_id, S_null) >>)

\* PermissionCacheManager._build_check_key
_build_check_key(subjects, scope, action, tenant_id, object_id) ==
    LET sorted_subjects == join(<< "|" >>, sorted(subjects))
    IN  join(<< ":" >>, << cache_prefix, S_check, sorted_subjects, scope, action,
                          Or(tenant_id, S_null), Or(object_id, S_null) >>)

\* PermissionCacheManager._build_subject_pattern
_build_subject_pattern(subject) ==
    cache_prefix \o << ":" >> \o S_check \o << ":", "*" >> \o subject \o << "*" >>

\* ----------------------------------------------------------- cache stores
\* The store behind the manager is "memory" (InMemoryCacheService), "redis"
\* (RedisCacheService) or "noop" (NoOpCacheService).  A Redis operation ends
\* "ok", in a RedisError the store absorbs ("error"), or in another exception
\* that leaves the store ("raise"); the other two stores always end "ok".
StoreOutcomes(kind) == IF kind = "redis" THEN { "ok", "error", "raise" } ELSE { "ok" }

Restrict(c, D) == [k \in D |-> c[k]]

Put(c, key, entry) == [k \in DOMAIN c \cup { key } |-> IF k = key THEN entry ELSE c[k]]

EmptyCache == [k \in {} |-> 0]

\* the expires_at of an entry stored without a ttl (None: it never expires)
NoExpiry == -1

\* an entry: the stored value and expiry instant; ver and subjects record,
\* for the properties only, the server version the decision was read at and
\* the subject list of the check that stored it
Entry(value, expires_at, ver, subjects) ==
    [value |-> value, expires_at |-> expires_at, ver |-> ver, subjects |-> subjects]

\* a lookup that takes a falsy value for no value ("if not result: return
\* None"): a cached False reads as a miss
StoreGet_falsyAbsent(kind, f, c, key, t) ==
    IF kind = "memory" THEN
        IF key \notin DOMAIN c THEN [status |-> "miss", value |-> FALSE, ver |-> 0, cache |-> c]
        ELSE IF t > c[key].expires_at
             THEN [status |-> "miss", value |-> FALSE, ver |-> 0,
                   cache |-> Restrict(c, DOMAIN c \ { key })]
             ELSE IF c[key].value = FALSE
             THEN [status |-> "miss", value |-> FALSE, ver |-> 0, cache |-> c]
             ELSE [status |-> "hit", value |-> c[key].value, ver |-> c[key].ver, cache |-> c]
    ELSE IF kind = "redis" THEN
        IF f = "raise" THEN [status |-> "raise", value |-> FALSE, ver |-> 0, cache |-> c]
        ELSE IF f = "error" \/ key \notin DOMAIN c \/ c[key].value = FALSE
             THEN [status |-> "miss", value |-> FALSE, ver |-> 0, cache |-> c]
             ELSE [status |-> "hit", value |-> c[key].value, ver |-> c[key].ver, cache |-> c]
    ELSE [status |-> "miss", value |-> FALSE, ver |-> 0, cache |-> c]

\* get(key): status "hit" / "miss" / "raise", the value, the store afterwards
StoreGet(kind, f, c, key, t) ==
    IF kind = "memory" THEN
        IF key \notin DOMAIN c THEN [status |-> "miss", value |-> FALSE, ver |-> 0, cache |-> c]
        ELSE IF t > c[key].expires_at
             THEN [status |-> "miss", value |-> FALSE, ver |-> 0,
                   cache |-> Restrict(c, DOMAIN c \ { key })]
             ELSE [status |-> "hit", value |-> c[key].value, ver |-> c[key].ver, cache |-> c]
    ELSE IF kind = "redis" THEN
        IF f = "raise" THEN [status |-> "raise", value |-> FALSE, ver |-> 0, cache |-> c]
        ELSE IF f = "error" \/ key \notin DOMAIN c
             THEN [status |-> "miss", value |-> FALSE, ver |-> 0, cache |-> c]
             ELSE [status |-> "hit", value |-> c[key].value, ver |-> c[key].ver, cache |-> c]
    ELSE [status |-> "miss", value |-> FALSE, ver |-> 0, cache |-> c]

\* set(key, value, ttl): the store afterwards
StoreSet(kind, f, c, key, entry) ==
    IF kind = "memory" \/ (kind = "redis" /\ f = "ok") THEN Put(c, key, entry) ELSE c

\* delete_pattern(pattern): the store afterwards
StoreDeletePattern(kind, f, c, pattern) ==
    IF kind = "memory" \/ (kind = "redis" /\ f = "ok")
    THEN Restrict(c, { k \in DOMAIN c : ~ fnmatch(k, pattern) })
    ELSE c

\* Redis drops a key once its TTL has elapsed
RedisExpire(c, t) ==
    Restrict(c, { k \in DOMAIN c : c[k].expires_at = NoExpiry \/ c[k].expires_at > t })

\* ------------------------------------------------------------ error kinds
\* an exception: its class, and the attributes the SDK's errors carry
\* (status_code, timeout, retry_after, field, resource_type); an optional
\* integer is None or << n >>
Err(type, status) ==
    [type |-> type, status |-> status, timeout |-> 0, retry_after |-> None,
     field |-> None, resource_type |-> None]
NoError == Err("none", 0)

\* the classes of the SDK's error taxonomy (subclasses of PermissionSDKError)
Taxonomy ==
    { "AuthenticationError", "ValidationError", "ResourceNotFoundError",
      "ConflictError", "RateLimitError", "ServerError", "NetworkError",
      "TimeoutError" }

\* int(s) for a header value: the number a string of decimal digits denotes;
\* ok is FALSE where int raises ValueError
int(s) ==
    LET DigitChars == << "0", "1", "2", "3", "4", "5", "6", "7", "8", "9" >>
        IsDigit(ch) == \E i \in 1..10 : DigitChars[i] = ch
        DigitValue(ch) == (CHOOSE i \in 1..10 : DigitChars[i] = ch) - 1
        RECURSIVE DecimalValue(_)
        DecimalValue(x) ==
            IF x = << >> THEN 0
            ELSE 10 * DecimalValue(SubSeq(x, 1, Len(x) - 1)) + DigitValue(x[Len(x)])
    IN  IF s # << >> /\ \A i \in 1..Len(s) : IsDigit(s[i])
        THEN [ok |-> TRUE, value |-> DecimalValue(s)]
        ELSE [ok |-> FALSE, value |-> 0]

\* HTTPTransport._handle_response / AsyncHTTPTransport._handle_response:
\* the exception raised for a response, NoError when it returns.
\* response.body is "detail" (a JSON object with a detail), "fields" (a JSON
\* object with detail, field "scope" and error_type "role") or "text" (not
\* JSON);
\* response.retry_after is the Retry-After header, None when absent.
_handle_response(response) ==
    LET status == response.status
        error_type == IF response.body = "fields" THEN << "r", "o", "l", "e" >> ELSE None
        error_field == IF response.body = "fields" THEN << "s", "c", "o", "p", "e" >>
                       ELSE None
    IN  IF 200 <= status /\ status < 300 THEN NoError
        ELSE IF status = 401 THEN Err("AuthenticationError", status)
        ELSE IF status = 400
        THEN [Err("ValidationError", status) EXCEPT !.field = error_field]
        ELSE IF status = 404
        THEN [Err("ResourceNotFoundError", status) EXCEPT !.resource_type = error_type]
        ELSE IF status = 429 THEN
            IF response.retry_after = None THEN Err("RateLimitError", status)
            ELSE IF int(response.retry_after).ok
            THEN [Err("RateLimitError", status) EXCEPT
                      !.retry_after = << int(response.retry_after).value >>]
            ELSE Err("ValueError", 0)
        ELSE IF status >= 500 THEN Err("ServerError", status)
        ELSE Err("ServerError", status)

\* ------------------------------------------------------- attempt outcomes
Statuses == { 200, 204, 400, 401, 404, 409, 429, 500 }

\* a response with a JSON body and no Retry-After header
PlainResponse(s) ==
    [t |-> "response", status |-> s, retry_after |-> None, body |-> "detail"]
\* client.request() raised
Failure(t) == [t |-> t, status |-> 0, retry_after |-> None, body |-> "none"]

\* Retry-After header values: delay-seconds, and a value that is no integer
RetryAfterSeconds == << "7" >>
RetryAfterText == << "s", "o", "o", "n" >>

\* what one client.request() call can end in: a response, a timeout
\* (httpx.TimeoutException), a connect/network failure (httpx.ConnectError /
\* httpx.NetworkError), or another httpx failure ("other", such as
\* httpx.RemoteProtocolError)
Outcomes ==
    { Failure("timeout"), Failure("network"), Failure("other") }
    \cup { PlainResponse(s) : s \in Statuses }
    \cup { [PlainResponse(s) EXCEPT !.body = "fields"] : s \in { 400, 404 } }
    \cup { [PlainResponse(429) EXCEPT !.retry_after = h] :
              h \in { RetryAfterSeconds, RetryAfterText } }
    \cup { [PlainResponse(s) EXCEPT !.body = "text"] : s \in { 200, 500 } }

\* _do_request after client.request returned a response: _handle_response,
\* then {} for a 204 and response.json() otherwise (json.JSONDecodeError
\* when the body is not JSON)
ResponseStep(o) ==
    IF _handle_response(o) # NoError
    THEN [next |-> "raise", err |-> _handle_response(o), waited |-> FALSE]
    ELSE IF o.status = 204 THEN [next |-> "return", err |-> NoError, waited |-> FALSE]
    ELSE IF o.body = "text"
    THEN [next |-> "raise", err |-> Err("JSONDecodeError", 0), waited |-> FALSE]
    ELSE [next |-> "return", err |-> NoError, waited |-> FALSE]

\* an httpx exception no except clause of the loop names leaves _do_request
Uncaught == [next |-> "raise", err |-> Err("RemoteProtocolError", 0), waited |-> FALSE]

\* range(max_retries + 1) has another index after attempt
LoopHasNext(cfg, attempt) == attempt + 1 < cfg.max_retries + 1

\* after _wait_for_retry: the next iteration, or the statement after the
\* loop (raise ServerError("Maximum retries exceeded"))
AfterWait(cfg, attempt) ==
    IF LoopHasNext(cfg, attempt)
    THEN [next |-> "retry", err |-> NoError, waited |-> TRUE]
    ELSE [next |-> "raise", err |-> Err("ServerError", 0), waited |-> TRUE]

\* a loop that retries every timeout and network failure, exhausted or not
_do_request_retryAlways(cfg, attempt, o) ==
    IF o.t = "response" THEN ResponseStep(o)
    ELSE IF o.t = "other" THEN Uncaught
    ELSE [next |-> "retry", err |-> NoError, waited |-> TRUE]

\* a timeout branch that tests attempt == max_retries + 1: the last timeout
\* waits and falls out of the loop
_do_request_lateRaise(cfg, attempt, o) ==
    IF o.t = "response" THEN ResponseStep(o)
    ELSE IF o.t = "other" THEN Uncaught
    ELSE IF o.t = "timeout" THEN
        IF attempt = cfg.max_retries + 1
        THEN [next |-> "raise",
              err |-> [Err("TimeoutError", 0) EXCEPT !.timeout = cfg.timeout],
              waited |-> FALSE]
        ELSE AfterWait(cfg, attempt)
    ELSE
        IF attempt = cfg.max_retries
        THEN [next |-> "raise", err |-> Err("NetworkError", 0), waited |-> FALSE]
        ELSE AfterWait(cfg, attempt)

\* a network branch that raises at once, without retrying
_do_request_noNetworkRetry(cfg, attempt, o) ==
    IF o.t = "response" THEN ResponseStep(o)
    ELSE IF o.t = "other" THEN Uncaught
    ELSE IF o.t = "timeout" THEN
        IF attempt = cfg.max_retries
        THEN [next |-> "raise",
              err |-> [Err("TimeoutError", 0) EXCEPT !.timeout = cfg.timeout],
              waited |-> FALSE]
        ELSE AfterWait(cfg, attempt)
    ELSE [next |-> "raise", err |-> Err("NetworkError", 0), waited |-> FALSE]

\* a loop that treats every error status as retryable while attempts remain
_do_request_retryAnyStatus(cfg, attempt, o) ==
    IF o.t = "response" THEN
        IF _handle_response(o) # NoError /\ attempt < cfg.max_retries
        THEN AfterWait(cfg, attempt)
        ELSE ResponseStep(o)
    ELSE IF o.t = "other" THEN Uncaught
    ELSE IF o.t = "timeout" THEN
        IF attempt = cfg.max_retries
        THEN [next |-> "raise",
              err |-> [Err("TimeoutError", 0) EXCEPT !.timeout = cfg.timeout],
              waited |-> FALSE]
        ELSE AfterWait(cfg, attempt)
    ELSE
        IF attempt = cfg.max_retries
        THEN [next |-> "raise", err |-> Err("NetworkError", 0), waited |-> FALSE]
        ELSE AfterWait(cfg, attempt)

\* a network branch that tests attempt == max_retries + 1: the last network
\* failure waits and falls out of the loop
_do_request_networkFallsThrough(cfg, attempt, o) ==
    IF o.t = "response" THEN ResponseStep(o)
    ELSE IF o.t = "other" THEN Uncaught
    ELSE IF o.t = "timeout" THEN
        IF attempt = cfg.max_retries
        THEN [next |-> "raise",
              err |-> [Err("TimeoutError", 0) EXCEPT !.timeout = cfg.timeout],
              waited |-> FALSE]
        ELSE AfterWait(cfg, attempt)
    ELSE
        IF attempt = cfg.max_retries + 1
        THEN [next |-> "raise", err |-> Err("NetworkError", 0), waited |-> FALSE]
        ELSE AfterWait(cfg, attempt)

\* a loop whose exhausted network branch reports a timeout, whatever the
\* last attempt ended in
_do_request_exhaustedAsTimeout(cfg, attempt, o) ==
    IF o.t = "response" THEN ResponseStep(o)
    ELSE IF o.t = "other" THEN Uncaught
    ELSE IF attempt = cfg.max_retries
    THEN [next |-> "raise",
          err |-> [Err("TimeoutError", 0) EXCEPT !.timeout = cfg.timeout],
          waited |-> FALSE]
    ELSE AfterWait(cfg, attempt)

\* One iteration of the retry loop of _do_request / AsyncHTTPTransport.request
\* for loop index attempt: "return", "raise" err, or "retry"; waited says
\* whether the iteration slept in _wait_for_retry.
\* The typed errors raised by _handle_response are not httpx exceptions, so
\* none of the except clauses of the loop catches them.
_do_request(cfg, attempt, o) ==
    IF o.t = "response" THEN ResponseStep(o)
    ELSE IF o.t = "other" THEN Uncaught
    ELSE IF o.t = "timeout" THEN
        IF attempt = cfg.max_retries
        THEN [next |-> "raise",
              err |-> [Err("TimeoutError", 0) EXCEPT !.timeout = cfg.timeout],
              waited |-> FALSE]
        ELSE AfterWait(cfg, attempt)
    ELSE
        IF attempt = cfg.max_retries
        THEN [next |-> "raise", err |-> Err("NetworkError", 0), waited |-> FALSE]
        ELSE AfterWait(cfg, attempt)

\* HTTPTransport._invalidate_cache_for_mutation: the subjects it invalidates
InvalidationSubjects(endpoint, json) ==
    IF Contains(endpoint, M_grant_many) \/ Contains(endpoint, M_revoke_many)
    THEN { s \in Elems(json.items) : s # None }
    ELSE IF Contains(endpoint, M_grant) \/ Contains(endpoint, M_revoke)
    THEN (IF json.subject # None THEN { json.subject } ELSE {})
    ELSE {}

\* ------------------------------------------------------------------ state
VARIABLES
    config,             \* the SDKConfig of the transports
    callers,            \* the threads / tasks that issue requests
    menu,               \* the calls the callers may make: [transport, req]
    outs,               \* the outcomes the network and service may produce
    cache_initialized,  \* HTTPTransport._cache_initialized
    cache_manager,      \* HTTPTransport.cache_manager: "None" or its store kind
    cache,              \* the store's map: key -> entry
    now,                \* time.time()
    granted,            \* the service: subjects that hold the permission
    version,            \* the service: number of mutations applied
    call,               \* per caller: the request in progress
    nreq,               \* requests started so far
    last_mut,           \* per subject: version of the last mutation that
                        \* named it and has returned successfully
    twin,               \* per caller: the same request on an HTTPTransport
                        \* whose configuration has cache_enabled = False and
                        \* which receives the same responses ("off": none)
    op                  \* per caller: the InMemoryCacheService method the
                        \* thread is executing, statement by statement

vars == << config, callers, menu, outs, cache_initialized, cache_manager, cache,
           now, granted, version, call, nreq, last_mut, twin, op >>

NoResult ==
    [kind |-> "none", has_allowed |-> FALSE, allowed |-> FALSE, err |-> NoError,
     source |-> "none", ver |-> 0]

\* the body the service answers a 2xx with: {"allowed": ...} to a 200 for a
\* single check, nothing the transport reads otherwise ({} for a 204)
ServiceResult(r, status, g, v) ==
    IF r.endpoint = EP_check /\ status = 200
    THEN [kind |-> "ok", has_allowed |-> TRUE,
          allowed |-> (Elems(r.json.subjects) \cap g # {}), err |-> NoError,
          source |-> "http", ver |-> v]
    ELSE [kind |-> "ok", has_allowed |-> FALSE, allowed |-> FALSE, err |-> NoError,
          source |-> "http", ver |-> v]

ErrorResult(e, v) ==
    [kind |-> "error", has_allowed |-> FALSE, allowed |-> FALSE, err |-> e,
     source |-> "http", ver |-> v]

\* {"allowed": cached_result}
CachedResult(value, v) ==
    [kind |-> "ok", has_allowed |-> TRUE, allowed |-> value, err |-> NoError,
     source |-> "cache", ver |-> v]

DummyReq == Req("GET", EP_permissions, NoBody)

\* attempts .. last_header count the HTTP attempts of the request, the timeouts
\* and network failures among them, the backoff waits, and the last attempt's
\* kind, status (0 when it brought no response) and Retry-After header;
\* raised: a cache operation of the request raised into the transport;
\* faulted: a cache operation of the request failed (raised, or ended in an
\* error the store absorbed); deletes: its delete_pattern calls; cache_ops:
\* its calls of the cache manager (lookup, write-through, invalidation)
IdleCall ==
    [pc |-> "idle", transport |-> "sync", req |-> DummyReq, attempt |-> 0,
     attempts |-> 0, timeouts |-> 0, networks |-> 0, waits |-> 0, last_t |-> "none",
     last_status |-> 0, last_header |-> None,
     pending |-> {}, result |-> NoResult, http_result |-> NoResult,
     raised |-> FALSE, faulted |-> FALSE, deletes |-> 0, cache_ops |-> 0,
     start_mut |-> [s \in Subjects |-> 0]]

IsMutation(r) ==
    /\ ~ _is_check_request(r.method, r.endpoint)
    /\ _is_grant_request(r.method, r.endpoint) \/ _is_revoke_request(r.method, r.endpoint)

IsSingleCheck(r) ==
    /\ _is_check_request(r.method, r.endpoint)
    /\ ~ Contains(r.endpoint, M_permissions_check_many)

CheckKey(r) ==
    _build_check_key(r.json.subjects, r.json.scope, r.json.action,
                     r.json.tenant_id, r.json.object_id)

\* configurations SDKConfig._validate accepts
ConfigOK(cfg) ==
    /\ cfg.timeout > 0
    /\ cfg.max_retries >= 0
    /\ cfg.cache_enabled => cfg.cache_ttl > 0

\* a thread inside no method of the store.  pc is the statement the thread
\* is about to execute; key is the method's key or pattern; size, seen and
\* matching are delete_pattern's locals: the dict iterator's size, the keys it
\* has yielded, and matching_keys; error is the exception the method raised;
\* start records, for the properties only, the map before any method ran
\* value and ttl are set's arguments (ttl None or << seconds >>); result is
\* what the method returned; before and at record, for the properties
\* only, the map when the method was called and the instant time.time() was
\* read at
IdleOp ==
    [pc |-> "idle", kind |-> "none", key |-> << >>, size |-> 0, seen |-> {},
     matching |-> << >>, error |-> "none", start |-> EmptyCache,
     value |-> TRUE, ttl |-> None, result |-> "None", before |-> EmptyCache,
     at |-> 0]

\* the twin transport: HTTPTransport.request with cache_enabled = False
TwinOff == [pc |-> "off", attempt |-> 0, attempts |-> 0, waits |-> 0, result |-> NoResult]
TwinIdle == [TwinOff EXCEPT !.pc = "idle"]

Sync(rs) == { [transport |-> "sync", req |-> r] : r \in rs }
Async(rs) == { [transport |-> "async", req |-> r] : r \in rs }

InitWith(cs, cfgs, m, os, gs, tw) ==
    /\ config \in { cfg \in cfgs : ConfigOK(cfg) }
    /\ callers = cs
    /\ menu = m
    /\ outs = os
    /\ cache_initialized = FALSE
    /\ cache_manager = "None"
    /\ cache = EmptyCache
    /\ now = 0
    /\ granted \in gs
    /\ version = 0
    /\ call = [c \in cs |-> IdleCall]
    /\ nreq = 0
    /\ last_mut = [s \in Subjects |-> 0]
    /\ twin = [c \in cs |-> tw]
    /\ op = [c \in cs |-> IdleOp]

\* one caller, caching enabled over each backend, every kind of request
CacheOutcomes == { Failure("timeout") } \cup { PlainResponse(s) : s \in { 200, 204, 500 } }

Init ==
    InitWith({ 1 },
             { cfg \in Configs : /\ cfg.cache_enabled /\ cfg.max_retries = 1 /\ cfg.timeout = 30
                                 /\ cfg.retry_on_status = DefaultRetryOnStatus },
             Sync(Requests) \cup Async({ Req("POST", EP_check, Body(TRUE, << SubjValid >>, None, << >>, None)) }),
             CacheOutcomes,
             { {}, Subjects }, TwinOff)

\* the same over the in-process store only
InitMemory == Init /\ config.cache_type = "memory"

\* the retry loop and the status mapping: both transports, every outcome
OneCheck == Req("POST", EP_check, Body(TRUE, << SubjValid >>, None, << >>, None))
OneGrant == Req("POST", EP_grant, Body(TRUE, << >>, SubjValid, << >>, None))
OneRevoke == Req("POST", EP_revoke, Body(TRUE, << >>, SubjValid, << >>, None))

InitRetry ==
    InitWith({ 1 },
             { cfg \in Configs : cfg.cache_type = "memory" },
             Sync({ OneCheck, OneGrant, DummyReq }) \cup Async({ OneCheck }),
             Outcomes,
             { {} }, TwinOff)

\* two callers share one transport and its in-process store
InitConc ==
    InitWith({ 1, 2 },
             { cfg \in Configs : cfg.cache_enabled /\ cfg.cache_type = "memory"
                                 /\ cfg.max_retries = 1 /\ cfg.timeout = 30
                                 /\ cfg.retry_on_status = DefaultRetryOnStatus },
             Sync({ OneCheck, OneRevoke }) \cup Async({ OneCheck }),
             { Failure("timeout"), PlainResponse(200) },
             { Subjects }, TwinOff)

\* caching enabled over the no-op store (cache_type "none"), beside a twin
\* transport with caching disabled that is given the same requests and
\* responses
InitNoop ==
    InitWith({ 1 },
             { cfg \in Configs : /\ cfg.cache_enabled /\ cfg.cache_type = "none"
                                 /\ cfg.max_retries = 1 /\ cfg.timeout = 30
                                 /\ cfg.retry_on_status = DefaultRetryOnStatus },
             Sync(Requests) \cup Async({ OneCheck }),
             CacheOutcomes \cup { PlainResponse(401), Failure("other") },
             { {}, Subjects }, TwinIdle)

\* -------------------------------------------------------------- operations
\* a provider that builds the in-process store for cache_type "none"
_ensure_cache_initialized_memoryDefault(cfg, initialized, manager, env) ==
    IF initialized THEN manager
    ELSE IF ~ cfg.cache_enabled THEN "None"
    ELSE IF env = "raise" THEN "None"
    ELSE IF cfg.cache_type = "redis" THEN (IF env = "ok" THEN "redis" ELSE "memory")
    ELSE "memory"

\* a provider that lets the exception of a raising ping out
create_cache_service_async_pingRaises(cfg, env) ==
    IF ~ cfg.cache_enabled THEN "noop"
    ELSE IF cfg.cache_type = "redis"
    THEN (IF env = "ok" THEN "redis" ELSE IF env = "ping_raises" THEN "raise" ELSE "memory")
    ELSE IF cfg.cache_type = "memory" THEN "memory"
    ELSE "noop"

\* create_cache_service_async(config): the service it returns.  env is what
\* the environment does to the Redis backend: "ok", or a failure ("no_url":
\* cache_redis_url is not set; "construct_error": Redis.from_url raises;
\* "ping_false" / "ping_raises": the connection test fails; "fallback": any
\* of them), after which the in-process store is returned.
create_cache_service_async(cfg, env) ==
    IF ~ cfg.cache_enabled THEN "noop"
    ELSE IF cfg.cache_type = "redis" THEN (IF env = "ok" THEN "redis" ELSE "memory")
    ELSE IF cfg.cache_type = "memory" THEN "memory"
    ELSE "noop"

\* HTTPTransport._ensure_cache_initialized with create_cache_service_async:
\* the cache manager after the call.  env is what the environment does to
\* the initialisation: what create_cache_service_async takes, or "raise"
\* (the initialisation raises).
_ensure_cache_initialized(cfg, initialized, manager, env) ==
    IF initialized THEN manager
    ELSE IF ~ cfg.cache_enabled THEN "None"
    ELSE IF env = "raise" THEN "None"
    ELSE create_cache_service_async(cfg, env)

InitEnvs(cfg, initialized) ==
    IF initialized \/ ~ cfg.cache_enabled THEN { "ok" }
    ELSE IF cfg.cache_type = "redis" THEN { "ok", "fallback", "raise" }
    ELSE { "ok", "raise" }

\* a transport that treats check-many as cache-eligible: every check request
\* with a body is looked up
Route_cacheAsUnit(r, manager) ==
    IF _is_check_request(r.method, r.endpoint) /\ manager # "None" /\ r.json.truthy
    THEN "lookup" ELSE "sending"

\* HTTPTransport.request up to the first cache or HTTP operation:
\* where the request goes next
Route(r, manager) ==
    IF _is_check_request(r.method, r.endpoint) THEN
        IF manager = "None" \/ ~ r.json.truthy THEN "sending"
        ELSE IF ~ Contains(r.endpoint, M_permissions_check_many) THEN "lookup"
        ELSE "sending"
    ELSE "sending"

\* the twin's cache manager: _ensure_cache_initialized leaves it None
TwinManager ==
    _ensure_cache_initialized([config EXCEPT !.cache_enabled = FALSE], FALSE, "None", "ok")

\* the twin's request() is called with the same request
TwinStart(tw, r) ==
    IF tw.pc = "off" THEN tw ELSE [TwinIdle EXCEPT !.pc = Route(r, TwinManager)]

\* a caller calls HTTPTransport.request(method, endpoint, json)
StartRequest(c, r, env) ==
    /\ call[c].pc = "idle"
    /\ nreq < MaxRequests
    /\ nreq' = nreq + 1
    /\ cache_manager' = _ensure_cache_initialized(config, cache_initialized, cache_manager, env)
    /\ cache_initialized' = TRUE
    /\ call' = [call EXCEPT ![c] =
                  [IdleCall EXCEPT !.pc = Route(r, cache_manager'), !.req = r,
                                   !.start_mut = last_mut]]
    /\ twin' = [twin EXCEPT ![c] = TwinStart(@, r)]
    /\ UNCHANGED << config, callers, menu, outs, cache, now, granted, version, last_mut, op >>

\* a caller awaits AsyncHTTPTransport.request(method, endpoint, json)
StartAsyncRequest(c, r) ==
    /\ call[c].pc = "idle"
    /\ nreq < MaxRequests
    /\ nreq' = nreq + 1
    /\ call' = [call EXCEPT ![c] =
                  [IdleCall EXCEPT !.pc = "sending", !.transport = "async", !.req = r,
                                   !.start_mut = last_mut]]
    /\ twin' = [twin EXCEPT ![c] = TwinStart(@, r)]
    /\ UNCHANGED << config, callers, menu, outs, cache_initialized, cache_manager, cache,
                    now, granted, version, last_mut, op >>

\* a lookup that tests the cached value's truthiness ("if cached_result:")
AfterLookup_truthy(g) ==
    IF g.status = "hit" /\ g.value
    THEN [pc |-> "done", result |-> CachedResult(g.value, g.ver)]
    ELSE [pc |-> "sending", result |-> NoResult]

\* _handle_check_request, the cache lookup: where the request goes after
\* get_check_result ended with g, and its result if it is over
AfterLookup(g) ==
    IF g.status = "raise" THEN [pc |-> "sending", result |-> NoResult]
    ELSE IF g.status = "hit"
    THEN [pc |-> "done", result |-> CachedResult(g.value, g.ver)]
    ELSE [pc |-> "sending", result |-> NoResult]

CacheLookup(c, f) ==
    /\ call[c].pc = "lookup"
    /\ LET g == StoreGet(cache_manager, f, cache, CheckKey(call[c].req), now)
           a == AfterLookup(g)
       IN  /\ cache' = g.cache
           /\ call' = [call EXCEPT ![c].pc = a.pc, ![c].result = a.result,
                                   ![c].cache_ops = @ + 1,
                                   ![c].raised = (g.status = "raise"),
                                   ![c].faulted = (f # "ok")]
    /\ UNCHANGED << config, callers, menu, outs, cache_initialized, cache_manager, now,
                    granted, version, nreq, last_mut, twin, op >>

\* the service applies a mutation it answers with a 2xx
ServiceMutates(r) ==
    r.method = "POST" /\ r.endpoint \in { EP_grant, EP_grant_many, EP_revoke, EP_revoke_many }

ServiceGranted(r, g) ==
    IF r.method = "POST" /\ r.endpoint \in { EP_grant, EP_grant_many } THEN g \cup NamedSubjects(r)
    ELSE IF r.method = "POST" /\ r.endpoint \in { EP_revoke, EP_revoke_many } THEN g \ NamedSubjects(r)
    ELSE g

\* where a sync request goes once _do_request has returned
AfterSuccess(r, manager) ==
    IF _is_check_request(r.method, r.endpoint) THEN
        IF manager = "None" \/ ~ r.json.truthy THEN "done"
        ELSE IF ~ Contains(r.endpoint, M_permissions_check_many) THEN "write"
        ELSE "done"
    ELSE IF _is_grant_request(r.method, r.endpoint) \/ _is_revoke_request(r.method, r.endpoint) THEN
        IF manager # "None" /\ r.json.truthy /\ InvalidationSubjects(r.endpoint, r.json) # {}
        THEN "invalidate" ELSE "done"
    ELSE "done"

\* invalidation placed in a finally clause: it runs on failure too
AfterFailure_finally(r, manager) ==
    IF /\ _is_grant_request(r.method, r.endpoint) \/ _is_revoke_request(r.method, r.endpoint)
       /\ ~ _is_check_request(r.method, r.endpoint)
       /\ manager # "None" /\ r.json.truthy
       /\ InvalidationSubjects(r.endpoint, r.json) # {}
    THEN "invalidate" ELSE "done"

\* a check handler that caches a denial when the HTTP call has failed
AfterFailure_writeDenial(r, manager) ==
    IF /\ _is_check_request(r.method, r.endpoint)
       /\ ~ Contains(r.endpoint, M_permissions_check_many)
       /\ manager # "None" /\ r.json.truthy
    THEN "write" ELSE "done"

\* where a sync request goes once _do_request has raised: the error leaves
\* _handle_check_request / _handle_mutation_request / request
AfterFailure(r, manager) == "done"

\* the twin's retry loop receives the outcome o of the attempt, answered by
\* the service in state g, v; a twin that is not about to make an attempt
\* has parted from the other transport ("diverged")
TwinAttempt(tw, r, o, g, v) ==
    IF tw.pc = "off" THEN tw
    ELSE IF tw.pc # "sending" THEN [tw EXCEPT !.pc = "diverged"]
    ELSE LET st == _do_request(config, tw.attempt, o)
             pc2 == IF st.next = "return" THEN AfterSuccess(r, TwinManager)
                    ELSE IF st.next = "raise" THEN AfterFailure(r, TwinManager)
                    ELSE "sending"
         IN  [pc |-> pc2,
              attempt |-> IF st.next = "retry" THEN tw.attempt + 1 ELSE tw.attempt,
              attempts |-> tw.attempts + 1,
              waits |-> IF st.waited THEN tw.waits + 1 ELSE tw.waits,
              result |-> IF st.next = "return" THEN ServiceResult(r, o.status, g, v)
                         ELSE IF st.next = "raise" THEN ErrorResult(st.err, v)
                         ELSE NoResult]

\* one iteration of the retry loop: one HTTP attempt and what follows it
HttpAttempt(c, o) ==
    /\ call[c].pc = "sending"
    /\ LET r == call[c].req
           ok == o.t = "response" /\ _handle_response(o) = NoError
           st == _do_request(config, call[c].attempt, o)
           g2 == IF ok /\ ServiceMutates(r) THEN ServiceGranted(r, granted) ELSE granted
           v2 == IF ok /\ ServiceMutates(r) THEN version + 1 ELSE version
           res == IF st.next = "return" THEN ServiceResult(r, o.status, g2, v2)
                  ELSE IF st.next = "raise" THEN ErrorResult(st.err, v2)
                  ELSE NoResult
           pc2 == IF st.next = "return" THEN
                      (IF call[c].transport = "sync" THEN AfterSuccess(r, cache_manager)
                       ELSE "done")
                  ELSE IF st.next = "raise" THEN
                      (IF call[c].transport = "sync" THEN AfterFailure(r, cache_manager)
                       ELSE "done")
                  ELSE "sending"
       IN  /\ granted' = g2
           /\ version' = v2
           /\ call' = [call EXCEPT
                  ![c].pc = pc2,
                  ![c].attempt = IF st.next = "retry" THEN @ + 1 ELSE @,
                  ![c].waits = IF st.waited THEN @ + 1 ELSE @,
                  ![c].attempts = @ + 1,
                  ![c].timeouts = IF o.t = "timeout" THEN @ + 1 ELSE @,
                  ![c].networks = IF o.t = "network" THEN @ + 1 ELSE @,
                  ![c].last_t = o.t,
                  ![c].last_status = o.status,
                  ![c].last_header = o.retry_after,
                  ![c].http_result = res,
                  ![c].result = IF pc2 = "done" THEN res ELSE NoResult,
                  ![c].pending = IF pc2 = "invalidate"
                                 THEN InvalidationSubjects(r.endpoint, r.json) ELSE {}]
           /\ twin' = [twin EXCEPT ![c] = TwinAttempt(@, r, o, g2, v2)]
    /\ UNCHANGED << config, callers, menu, outs, cache_initialized, cache_manager, cache,
                    now, nreq, last_mut, op >>

\* a write-through failure that is raised instead of logged
AfterWrite_reraise(f, http_result) ==
    IF f = "raise" THEN ErrorResult(Err("CacheError", 0), http_result.ver)
    ELSE http_result

\* _handle_check_request, the write-through: the request's result after
\* set_check_result ended with f (an exception is logged)
AfterWrite(f, http_result) == http_result

\* caching the truthiness of the response body instead of its "allowed"
CachedValue_truthy(h) == h.has_allowed

\* the value written through: result.get("allowed", False)
CachedValue(h) == IF h.has_allowed THEN h.allowed ELSE FALSE

WriteThrough(c, f) ==
    /\ call[c].pc = "write"
    /\ LET r == call[c].req
           h == call[c].http_result
           e == Entry(CachedValue(h), now + config.cache_ttl, h.ver, Elems(r.json.subjects))
       IN  /\ cache' = StoreSet(cache_manager, f, cache, CheckKey(r), e)
           /\ call' = [call EXCEPT ![c].pc = "done",
                                   ![c].cache_ops = @ + 1,
                                   ![c].result = AfterWrite(f, h),
                                   ![c].raised = @ \/ f = "raise",
                                   ![c].faulted = @ \/ f # "ok"]
    /\ UNCHANGED << config, callers, menu, outs, cache_initialized, cache_manager, now,
                    granted, version, nreq, last_mut, twin, op >>

\* _handle_mutation_request, the invalidation: the subjects still to be
\* invalidated after invalidate_subject(s) ended with f (an exception leaves
\* invalidate_subjects and is logged by the transport)
PendingAfter(pending, s, f) == IF f = "raise" THEN {} ELSE pending \ { s }

AfterInvalidate(f, http_result) == http_result

\* PermissionCacheManager.invalidate_subject: the store afterwards
invalidate_subject(kind, f, c, subject) ==
    StoreDeletePattern(kind, f, c, _build_subject_pattern(subject))

Invalidate(c, s, f) ==
    /\ call[c].pc = "invalidate"
    /\ s \in call[c].pending
    /\ cache' = invalidate_subject(cache_manager, f, cache, s)
    /\ LET p2 == PendingAfter(call[c].pending, s, f)
       IN  call' = [call EXCEPT
                  ![c].pending = p2,
                  ![c].deletes = @ + 1,
                  ![c].cache_ops = @ + 1,
                  ![c].raised = @ \/ f = "raise",
                  ![c].faulted = @ \/ f # "ok",
                  ![c].pc = IF p2 = {} THEN "done" ELSE "invalidate",
                  ![c].result = IF p2 = {} THEN AfterInvalidate(f, call[c].http_result)
                                ELSE NoResult]
    /\ UNCHANGED << config, callers, menu, outs, cache_initialized, cache_manager, now,
                    granted, version, nreq, last_mut, twin, op >>

Max(a, b) == IF a >= b THEN a ELSE b

\* request() returns or raises to the caller
Return(c) ==
    /\ call[c].pc = "done"
    /\ last_mut' = [s \in Subjects |->
                      IF /\ call[c].result.kind = "ok"
                         /\ ServiceMutates(call[c].req)
                         /\ s \in NamedSubjects(call[c].req)
                      THEN Max(last_mut[s], call[c].result.ver) ELSE last_mut[s]]
    /\ call' = [call EXCEPT ![c] = IdleCall]
    /\ twin' = [twin EXCEPT ![c] = IF @.pc = "off" THEN @ ELSE TwinIdle]
    /\ UNCHANGED << config, callers, menu, outs, cache_initialized, cache_manager, cache,
                    now, granted, version, nreq, op >>

\* a second passes: between requests, or while a request waits for the
\* network or sleeps before a retry
Tick ==
    /\ now < MaxTime
    /\ \A c \in callers : call[c].pc \in { "idle", "sending" }
    /\ now' = now + 1
    /\ cache' = IF cache_manager = "redis" THEN RedisExpire(cache, now') ELSE cache
    /\ UNCHANGED << config, callers, menu, outs, cache_initialized, cache_manager,
                    granted, version, call, nreq, last_mut, twin, op >>

Next ==
    \/ \E c \in callers, m \in menu :
         \E env \in InitEnvs(config, cache_initialized) :
            m.transport = "sync" /\ StartRequest(c, m.req, env)
    \/ \E c \in callers, m \in menu : m.transport = "async" /\ StartAsyncRequest(c, m.req)
    \/ \E c \in callers : \E f \in StoreOutcomes(cache_manager) : CacheLookup(c, f)
    \/ \E c \in callers, o \in outs : HttpAttempt(c, o)
    \/ \E c \in callers : \E f \in StoreOutcomes(cache_manager) : WriteThrough(c, f)
    \/ \E c \in callers, s \in Subjects :
         \E f \in StoreOutcomes(cache_manager) : Invalidate(c, s, f)
    \/ \E c \in callers : Return(c)
    \/ Tick

Spec == Init /\ [][Next]_vars

SpecMemory == InitMemory /\ [][Next]_vars

SpecRetry == InitRetry /\ [][Next]_vars

SpecConc == InitConc /\ [][Next]_vars

SpecNoop == InitNoop /\ [][Next]_vars

\* ------------------------------------------- InMemoryCacheService, threads
\* The sync transport runs every cache operation with asyncio.run in the
\* calling thread, so the methods of one InMemoryCacheService run in several
\* threads at once, with no lock: their statements interleave.  Each action
\* below executes one statement of a method on self._cache.
StoreKeys ==
    { _build_check_key(l, Scope, Action, None, None) :
        l \in { << SubjValid >>, << SubjBracket >>, << SubjValid, SubjBracket >> } }

\* two threads and a store holding any of the keys, all expired or all fresh
InitStore ==
    /\ config \in { cfg \in Configs : /\ cfg.cache_enabled /\ cfg.cache_type = "memory"
                                       /\ cfg.max_retries = 1 /\ cfg.timeout = 30
                                       /\ cfg.retry_on_status = DefaultRetryOnStatus }
    /\ callers = { 1, 2 }
    /\ menu = {}
    /\ outs = {}
    /\ cache_initialized = TRUE
    /\ cache_manager = "memory"
    /\ \E D \in SUBSET StoreKeys, e \in { 0, 2 } :
          cache = [k \in D |-> Entry(FALSE, e, 0, {})]
    /\ now = 1
    /\ granted = {}
    /\ version = 0
    /\ call = [c \in callers |-> IdleCall]
    /\ nreq = 0
    /\ last_mut = [s \in Subjects |-> 0]
    /\ twin = [c \in callers |-> TwinOff]
    /\ op = [c \in callers |-> [IdleOp EXCEPT !.start = cache]]

\* a thread calls a method of the store: get(key), exists(key),
\* set(key, value, ttl), delete(key) or delete_pattern(pattern)
StoreCall(c, kind, key, value, ttl) ==
    /\ cache_manager = "memory"
    /\ op[c].pc = "idle"
    /\ nreq < MaxRequests
    /\ nreq' = nreq + 1
    /\ op' = [op EXCEPT ![c].kind = kind, ![c].key = key,
                        ![c].value = value, ![c].ttl = ttl,
                        ![c].before = cache,
                        ![c].pc = IF kind = "set" THEN "store"
                                  ELSE IF kind = "delete_pattern" THEN "iter"
                                  ELSE "test"]
    /\ UNCHANGED << config, callers, menu, outs, cache_initialized, cache_manager, cache,
                    now, granted, version, call, last_mut, twin >>

\* InMemoryCacheService.get: `key not in self._cache`, then
\* `value, expires_at = self._cache[key]` and the expiry test, then
\* `del self._cache[key]` when the entry has expired.  exists(key) awaits
\* get(key) and returns `value is not None`.
get(c) ==
    /\ op[c].kind \in { "get", "exists" }
    /\ LET key == op[c].key
           returns(value) == IF op[c].kind = "exists" THEN value # "None" ELSE value
       IN  \/ /\ op[c].pc = "test"
              /\ op' = IF key \notin DOMAIN cache
                        THEN [op EXCEPT ![c].pc = "returned", ![c].result = returns("None")]
                        ELSE [op EXCEPT ![c].pc = "read"]
              /\ cache' = cache
           \/ /\ op[c].pc = "read"
              /\ op' = IF key \notin DOMAIN cache
                        THEN [op EXCEPT ![c].pc = "raised", ![c].error = "KeyError"]
                        ELSE IF /\ cache[key].expires_at # NoExpiry
                                /\ now > cache[key].expires_at
                        THEN [op EXCEPT ![c].pc = "del", ![c].at = now]
                        ELSE [op EXCEPT ![c].pc = "returned", ![c].at = now,
                                        ![c].result = returns(cache[key].value)]
              /\ cache' = cache
           \/ /\ op[c].pc = "del"
              /\ op' = IF key \notin DOMAIN cache
                        THEN [op EXCEPT ![c].pc = "raised", ![c].error = "KeyError"]
                        ELSE [op EXCEPT ![c].pc = "returned", ![c].result = returns("None")]
              /\ cache' = Restrict(cache, DOMAIN cache \ { key })
    /\ UNCHANGED << config, callers, menu, outs, cache_initialized, cache_manager,
                    now, granted, version, call, nreq, last_mut, twin >>

\* a set that keeps the entry a key already has
set_keepExisting(c) ==
    /\ op[c].kind = "set"
    /\ op[c].pc = "store"
    /\ LET expires_at == IF op[c].ttl # None THEN now + op[c].ttl[1] ELSE NoExpiry
       IN  cache' = IF op[c].key \in DOMAIN cache THEN cache
                    ELSE Put(cache, op[c].key, Entry(op[c].value, expires_at, 0, {}))
    /\ op' = [op EXCEPT ![c].pc = "returned", ![c].at = now, ![c].result = TRUE]
    /\ UNCHANGED << config, callers, menu, outs, cache_initialized, cache_manager,
                    now, granted, version, call, nreq, last_mut, twin >>

\* a set that tests the ttl for truth (`if ttl`), so that ttl = 0 stores an
\* entry without expiry
set_truthyTtl(c) ==
    /\ op[c].kind = "set"
    /\ op[c].pc = "store"
    /\ LET expires_at == IF op[c].ttl # None /\ op[c].ttl[1] # 0
                         THEN now + op[c].ttl[1] ELSE NoExpiry
       IN  cache' = Put(cache, op[c].key, Entry(op[c].value, expires_at, 0, {}))
    /\ op' = [op EXCEPT ![c].pc = "returned", ![c].at = now, ![c].result = TRUE]
    /\ UNCHANGED << config, callers, menu, outs, cache_initialized, cache_manager,
                    now, granted, version, call, nreq, last_mut, twin >>

\* InMemoryCacheService.set: `expires_at = time.time() + ttl if ttl is not
\* None else None`, then `self._cache[key] = (value, expires_at)`
set(c) ==
    /\ op[c].kind = "set"
    /\ op[c].pc = "store"
    /\ LET expires_at == IF op[c].ttl # None THEN now + op[c].ttl[1] ELSE NoExpiry
       IN  cache' = Put(cache, op[c].key, Entry(op[c].value, expires_at, 0, {}))
    /\ op' = [op EXCEPT ![c].pc = "returned", ![c].at = now, ![c].result = TRUE]
    /\ UNCHANGED << config, callers, menu, outs, cache_initialized, cache_manager,
                    now, granted, version, call, nreq, last_mut, twin >>

\* a delete that reports a deletion whether or not the key was there
delete_reportsTrue(c) ==
    /\ op[c].kind = "delete"
    /\ LET key == op[c].key
       IN  \/ /\ op[c].pc = "test"
              /\ op' = IF key \in DOMAIN cache THEN [op EXCEPT ![c].pc = "del"]
                        ELSE [op EXCEPT ![c].pc = "returned", ![c].result = TRUE]
              /\ cache' = cache
           \/ /\ op[c].pc = "del"
              /\ op' = IF key \notin DOMAIN cache
                        THEN [op EXCEPT ![c].pc = "raised", ![c].error = "KeyError"]
                        ELSE [op EXCEPT ![c].pc = "returned", ![c].result = TRUE]
              /\ cache' = Restrict(cache, DOMAIN cache \ { key })
    /\ UNCHANGED << config, callers, menu, outs, cache_initialized, cache_manager,
                    now, granted, version, call, nreq, last_mut, twin >>

\* InMemoryCacheService.delete: `key in self._cache`, then
\* `del self._cache[key]`
delete(c) ==
    /\ op[c].kind = "delete"
    /\ LET key == op[c].key
       IN  \/ /\ op[c].pc = "test"
              /\ op' = IF key \in DOMAIN cache THEN [op EXCEPT ![c].pc = "del"]
                        ELSE [op EXCEPT ![c].pc = "returned", ![c].result = FALSE]
              /\ cache' = cache
           \/ /\ op[c].pc = "del"
              /\ op' = IF key \notin DOMAIN cache
                        THEN [op EXCEPT ![c].pc = "raised", ![c].error = "KeyError"]
                        ELSE [op EXCEPT ![c].pc = "returned", ![c].result = TRUE]
              /\ cache' = Restrict(cache, DOMAIN cache \ { key })
    /\ UNCHANGED << config, callers, menu, outs, cache_initialized, cache_manager,
                    now, granted, version, call, nreq, last_mut, twin >>

\* InMemoryCacheService.delete_pattern: the list comprehension creates an
\* iterator over self._cache ("iter"), then asks it for one key at a time
\* ("next": the iterator raises RuntimeError when the dict's size differs
\* from the size at its creation) and tests the key with fnmatch; the loop
\* then deletes the matching keys one at a time ("del")
delete_pattern(c) ==
    /\ op[c].kind = "delete_pattern"
    /\ \/ /\ op[c].pc = "iter"
          /\ op' = [op EXCEPT ![c].pc = "next", ![c].size = Cardinality(DOMAIN cache)]
          /\ cache' = cache
       \/ /\ op[c].pc = "next"
          /\ Cardinality(DOMAIN cache) # op[c].size
          /\ op' = [op EXCEPT ![c].pc = "raised", ![c].error = "RuntimeError"]
          /\ cache' = cache
       \/ /\ op[c].pc = "next"
          /\ Cardinality(DOMAIN cache) = op[c].size
          /\ IF DOMAIN cache \ op[c].seen = {}
             THEN op' = [op EXCEPT ![c].pc = "del", ![c].result = Len(op[c].matching)]
             ELSE \E k \in DOMAIN cache \ op[c].seen :
                    op' = [op EXCEPT ![c].seen = @ \cup { k },
                                     ![c].matching = IF fnmatch(k, op[c].key)
                                                     THEN Append(@, k) ELSE @]
          /\ cache' = cache
       \/ /\ op[c].pc = "del"
          /\ IF op[c].matching = << >>
             THEN op' = [op EXCEPT ![c].pc = "returned"] /\ cache' = cache
             ELSE LET k == Head(op[c].matching)
                  IN  IF k \notin DOMAIN cache
                      THEN /\ op' = [op EXCEPT ![c].pc = "raised", ![c].error = "KeyError"]
                           /\ cache' = cache
                      ELSE /\ op' = [op EXCEPT ![c].matching = Tail(@)]
                           /\ cache' = Restrict(cache, DOMAIN cache \ { k })
    /\ UNCHANGED << config, callers, menu, outs, cache_initialized, cache_manager,
                    now, granted, version, call, nreq, last_mut, twin >>

NextStore ==
    \/ \E c \in callers, kind \in { "get", "set", "delete" }, key \in StoreKeys :
         StoreCall(c, kind, key, TRUE, << config.cache_ttl >>)
    \/ \E c \in callers :
         StoreCall(c, "delete_pattern", _build_subject_pattern(SubjValid), TRUE, None)
    \/ \E c \in callers : get(c)
    \/ \E c \in callers : set(c)
    \/ \E c \in callers : delete(c)
    \/ \E c \in callers : delete_pattern(c)

SpecStore == InitStore /\ [][NextStore]_vars

\* ------------------------------------------ configuration, backoff, provider
\* SDKConfig with retry_backoff and retry_multiplier (floats in the source,
\* whole numbers of a time unit here), every value SDKConfig._validate
\* accepts among them
InitConfig ==
    InitWith({ 1 },
             [ max_retries : 0..MaxRetriesBound,
               timeout : Timeouts,
               retry_on_status : RetryOnStatusSets,
               cache_enabled : BOOLEAN,
               cache_type : { "redis", "memory", "none" },
               cache_ttl : CacheTtls,
               retry_backoff : 0..2,
               retry_multiplier : 1..3 ],
             Sync({ OneCheck }), {}, { {} }, TwinOff)

\* a copy whose retry_on_status is the original's set object
copy_sharedSet(c, changes) ==
    /\ op[c].kind = "none"
    /\ LET current == [f \in DOMAIN config |->
                         IF f \in DOMAIN changes THEN changes[f] ELSE config[f]]
           valid == /\ ConfigOK(current)
                    /\ current.retry_backoff >= 0
                    /\ current.retry_multiplier >= 1
       IN  op' = [op EXCEPT ![c] =
                    [kind |-> "copy", changes |-> changes, original |-> config,
                     raised |-> ~ valid, copy |-> current, returned |-> current,
                     shared |-> "retry_on_status" \notin DOMAIN changes,
                     which |-> "none", status |-> 0]]
    /\ UNCHANGED << config, callers, menu, outs, cache_initialized, cache_manager, cache,
                    now, granted, version, call, nreq, last_mut, twin >>

\* SDKConfig.copy(**changes): the current fields (retry_on_status a copy of
\* the set), updated with the changes, go to SDKConfig(...), whose
\* __post_init__ validates them and raises ConfigurationError when they
\* are invalid.  shared tells whether the copy's retry_on_status is the
\* same set object as the original's.
copy(c, changes) ==
    /\ op[c].kind = "none"
    /\ LET current == [f \in DOMAIN config |->
                         IF f \in DOMAIN changes THEN changes[f] ELSE config[f]]
           valid == /\ ConfigOK(current)
                    /\ current.retry_backoff >= 0
                    /\ current.retry_multiplier >= 1
       IN  op' = [op EXCEPT ![c] =
                    [kind |-> "copy", changes |-> changes, original |-> config,
                     raised |-> ~ valid, copy |-> current, returned |-> current,
                     shared |-> FALSE, which |-> "none", status |-> 0]]
    /\ UNCHANGED << config, callers, menu, outs, cache_initialized, cache_manager, cache,
                    now, granted, version, call, nreq, last_mut, twin >>

\* the caller adds a status to the retry_on_status set of the original or
\* of the copy: `cfg.retry_on_status.add(status)`
RetryOnStatusAdd(c, which, status) ==
    /\ op[c].kind = "copy"
    /\ ~ op[c].raised
    /\ LET both == op[c].shared
       IN  /\ config' = IF which = "original" \/ both
                        THEN [config EXCEPT !.retry_on_status = @ \cup { status }]
                        ELSE config
           /\ op' = [op EXCEPT ![c].kind = "add", ![c].which = which,
                               ![c].status = status,
                               ![c].copy = IF which = "copy" \/ both
                                           THEN [@ EXCEPT !.retry_on_status = @ \cup { status }]
                                           ELSE @]
    /\ UNCHANGED << callers, menu, outs, cache_initialized, cache_manager, cache,
                    now, granted, version, call, nreq, last_mut, twin >>

\* HTTPTransport._wait_for_retry(attempt), called by the retry loop for
\* attempt = 0, 1, ... below max_retries: the time it sleeps
_wait_for_retry(c, attempt) ==
    /\ op[c].kind \in { "none", "_wait_for_retry" }
    /\ attempt < config.max_retries
    /\ attempt = IF op[c].kind = "none" THEN 0 ELSE Len(op[c].waits)
    /\ LET wait_time == config.retry_backoff * (config.retry_multiplier ^ attempt)
       IN  op' = [op EXCEPT ![c] =
                    [kind |-> "_wait_for_retry",
                     waits |-> IF op[c].kind = "none" THEN << wait_time >>
                               ELSE Append(op[c].waits, wait_time)]]
    /\ UNCHANGED << config, callers, menu, outs, cache_initialized, cache_manager, cache,
                    now, granted, version, call, nreq, last_mut, twin >>

\* the caller awaits create_cache_service_async(config)
CreateCacheService(c, env) ==
    /\ op[c].kind = "none"
    /\ op' = [op EXCEPT ![c] =
                [kind |-> "create_cache_service", env |-> env,
                 service |-> create_cache_service_async(config, env)]]
    /\ UNCHANGED << config, callers, menu, outs, cache_initialized, cache_manager, cache,
                    now, granted, version, call, nreq, last_mut, twin >>

NextConfig ==
    \/ \E c \in callers :
         \E changes \in { [timeout |-> 60], [timeout |-> 0],
                           [timeout |-> 60, max_retries |-> 0],
                           [retry_on_status |-> { 409, 500 }],
                           [retry_multiplier |-> 0],
                           [cache_enabled |-> TRUE, cache_type |-> "memory"] } :
            copy(c, changes)
    \/ \E c \in callers, which \in { "original", "copy" } : RetryOnStatusAdd(c, which, 404)
    \/ \E c \in callers, attempt \in 0..MaxRetriesBound : _wait_for_retry(c, attempt)
    \/ \E c \in callers,
          env \in { "ok", "no_url", "construct_error", "ping_false", "ping_raises" } :
         CreateCacheService(c, env)
    \/ \E c \in callers, m \in menu,
          env \in { "ok", "no_url", "construct_error", "ping_false", "ping_raises",
                    "raise" } :
         StartRequest(c, m.req, env)

SpecConfig == InitConfig /\ [][NextConfig]_vars

\* --------------------------------------------- the cache services, one caller
\* one caller makes calls one after the other on an InMemoryCacheService
\* or on a NoOpCacheService (cache_manager tells which), while time passes.
\* Values are Python literals.
InitService ==
    /\ config \in { cfg \in Configs : /\ cfg.cache_enabled /\ cfg.cache_type = "memory"
                                       /\ cfg.max_retries = 1 /\ cfg.timeout = 30
                                       /\ cfg.retry_on_status = DefaultRetryOnStatus }
    /\ callers = { 1 }
    /\ menu = {}
    /\ outs = {}
    /\ cache_initialized = TRUE
    /\ cache_manager \in { "memory", "noop" }
    /\ cache = EmptyCache
    /\ now = 0
    /\ granted = {}
    /\ version = 0
    /\ call = [c \in callers |-> IdleCall]
    /\ nreq = 0
    /\ last_mut = [s \in Subjects |-> 0]
    /\ twin = [c \in callers |-> TwinOff]
    /\ op = [c \in callers |-> IdleOp]

\* a no-op store whose delete reports a deletion
NoOpReturn_deleteTrue(kind) ==
    CASE kind = "get" -> "None"
      [] kind \in { "set", "clear", "delete" } -> TRUE
      [] kind = "exists" -> FALSE
      [] kind = "delete_pattern" -> 0

\* NoOpCacheService: what each method returns
NoOpReturn(kind) ==
    CASE kind = "get" -> "None"
      [] kind \in { "set", "clear" } -> TRUE
      [] kind \in { "delete", "exists" } -> FALSE
      [] kind = "delete_pattern" -> 0

\* the caller calls a method of a NoOpCacheService: it returns at once and
\* keeps nothing
NoOpCall(c, kind, key, value) ==
    /\ cache_manager = "noop"
    /\ op[c].pc = "idle"
    /\ nreq < MaxRequests
    /\ nreq' = nreq + 1
    /\ op' = [op EXCEPT ![c].kind = kind, ![c].key = key, ![c].value = value,
                        ![c].before = cache, ![c].pc = "returned",
                        ![c].result = NoOpReturn(kind)]
    /\ UNCHANGED << config, callers, menu, outs, cache_initialized, cache_manager, cache,
                    now, granted, version, call, last_mut, twin >>

\* the method has returned to the caller, who may call again
StoreReturn(c) ==
    /\ op[c].pc = "returned"
    /\ op' = [op EXCEPT ![c] = IdleOp]
    /\ UNCHANGED << config, callers, menu, outs, cache_initialized, cache_manager, cache,
                    now, granted, version, call, nreq, last_mut, twin >>

NextService ==
    \/ \E c \in callers, kind \in { "get", "exists", "delete" }, key \in StoreKeys :
         StoreCall(c, kind, key, "None", None)
    \/ \E c \in callers, key \in StoreKeys, value \in { "False", "0", "[]", "None", "'v'" },
          ttl \in { None, << 0 >>, << 1 >> } :
         StoreCall(c, "set", key, value, ttl)
    \/ \E c \in callers, x \in Subjects :
         StoreCall(c, "delete_pattern", _build_subject_pattern(x), "None", None)
    \/ \E c \in callers : get(c)
    \/ \E c \in callers : set(c)
    \/ \E c \in callers : delete(c)
    \/ \E c \in callers : delete_pattern(c)
    \/ \E c \in callers : StoreReturn(c)
    \/ \E c \in callers, key \in StoreKeys,
          kind \in { "get", "exists", "set", "delete", "delete_pattern", "clear" },
          value \in { "None", "'v'" } :
         NoOpCall(c, kind, key, value)
    \/ (\A c \in callers : op[c].pc = "idle") /\ Tick

SpecService == InitService /\ [][NextService]_vars

\* ------------------------------------------- RedisCacheService, one caller
\* a Redis store whose get lets the backend error out
RedisCacheService_getRaises(kind, f, c, key, value, ttl, t) ==
    IF f = "raise" \/ (f = "error" /\ kind = "get") THEN [result |-> "raise", cache |-> c]
    ELSE IF f = "error"
    THEN [result |-> IF kind = "delete_pattern" THEN 0 ELSE FALSE, cache |-> c]
    ELSE CASE kind = "get" ->
                [result |-> IF key \in DOMAIN c THEN c[key].value ELSE "None", cache |-> c]
           [] kind = "set" ->
                [result |-> TRUE,
                 cache |-> Put(c, key, Entry(value, IF ttl = None THEN NoExpiry ELSE t + ttl[1],
                                             0, {}))]
           [] kind = "delete" ->
                [result |-> key \in DOMAIN c, cache |-> Restrict(c, DOMAIN c \ { key })]
           [] kind = "delete_pattern" ->
                [result |-> Cardinality({ k \in DOMAIN c : fnmatch(k, key) }),
                 cache |-> Restrict(c, { k \in DOMAIN c : ~ fnmatch(k, key) })]
           [] kind = "exists" -> [result |-> key \in DOMAIN c, cache |-> c]
           [] kind = "clear" -> [result |-> TRUE, cache |-> EmptyCache]

\* RedisCacheService.get / set / delete / delete_pattern / exists / clear at
\* instant t on the keys c: what the method returns and the keys afterwards.
\* The Redis command ends "ok", in a RedisError ("error": the except clause
\* logs it and returns None / False / 0), or in an exception of another
\* class, which leaves the method ("raise").  key is the pattern of
\* delete_pattern; a value is stored as its JSON text and read back from it
\* (a boolean comes back as itself); set uses SETEX with a ttl and SET
\* without
RedisCacheService(kind, f, c, key, value, ttl, t) ==
    IF f = "raise" THEN [result |-> "raise", cache |-> c]
    ELSE IF f = "error"
    THEN [result |-> CASE kind = "get" -> "None"
                       [] kind = "delete_pattern" -> 0
                       [] OTHER -> FALSE,
          cache |-> c]
    ELSE CASE kind = "get" ->
                [result |-> IF key \in DOMAIN c THEN c[key].value ELSE "None", cache |-> c]
           [] kind = "set" ->
                [result |-> TRUE,
                 cache |-> Put(c, key, Entry(value, IF ttl = None THEN NoExpiry ELSE t + ttl[1],
                                             0, {}))]
           [] kind = "delete" ->
                [result |-> key \in DOMAIN c, cache |-> Restrict(c, DOMAIN c \ { key })]
           [] kind = "delete_pattern" ->
                [result |-> Cardinality({ k \in DOMAIN c : fnmatch(k, key) }),
                 cache |-> Restrict(c, { k \in DOMAIN c : ~ fnmatch(k, key) })]
           [] kind = "exists" -> [result |-> key \in DOMAIN c, cache |-> c]
           [] kind = "clear" -> [result |-> TRUE, cache |-> EmptyCache]

\* between two requests the caller calls a method of the transport's Redis
\* store; op records the call, the keys before and after it, and what it
\* returned
RedisCall(c, kind, f, key, value, ttl) ==
    /\ cache_manager = "redis"
    /\ call[c].pc = "idle"
    /\ op[c].pc = "idle"
    /\ nreq < MaxRequests
    /\ nreq' = nreq + 1
    /\ LET r == RedisCacheService(kind, f, cache, key, value, ttl, now)
       IN  /\ cache' = r.cache
           /\ op' = [op EXCEPT ![c] =
                       [pc |-> "returned", kind |-> kind, key |-> key, error |-> f,
                        result |-> r.result, before |-> cache, after |-> r.cache]]
    /\ UNCHANGED << config, callers, menu, outs, cache_initialized, cache_manager,
                    now, granted, version, call, last_mut, twin >>

\* caching enabled over Redis, beside a twin transport with caching disabled
\* that is given the same requests and responses
InitRedis ==
    InitWith({ 1 },
             { cfg \in Configs : /\ cfg.cache_enabled /\ cfg.cache_type = "redis"
                                 /\ cfg.max_retries = 1 /\ cfg.timeout = 30
                                 /\ cfg.retry_on_status = DefaultRetryOnStatus },
             Sync({ OneCheck, OneGrant }) \cup Async({ OneCheck }),
             { Failure("timeout"), PlainResponse(200) },
             { {}, Subjects }, TwinIdle)

NextRedis ==
    \/ Next
    \/ \E c \in callers, kind \in { "get", "exists", "delete", "clear" },
          f \in { "ok", "error" } :
         RedisCall(c, kind, f, CheckKey(OneCheck), FALSE, None)
    \/ \E c \in callers, f \in { "ok", "error" }, value \in BOOLEAN,
          ttl \in { None, << 1 >> } :
         RedisCall(c, "set", f, CheckKey(OneCheck), value, ttl)
    \/ \E c \in callers, f \in { "ok", "error" } :
         RedisCall(c, "delete_pattern", f, _build_subject_pattern(SubjValid), FALSE, None)
    \/ \E c \in callers : StoreReturn(c)

SpecRedis == InitRedis /\ [][NextRedis]_vars

\* ------------------------------------- PermissionCacheManager, one caller
\* The manager over the in-process store, called directly: a check result is
\* stored for a subject list, then looked up for a subject list or
\* invalidated for a subject.  op records the calls: stored is the
\* set_check_result call made, the other fields the call that followed it.
SubjLong == << "u", ":", "1", "0" >>
ManagerLists == UNION { [1..n -> Subjects \cup { SubjLong }] : n \in 1..MaxSubjects }
ManagerTenants == { None, << "t" >> }

InitManager ==
    /\ InitWith({ 1 },
                { cfg \in Configs : /\ cfg.cache_enabled /\ cfg.cache_type = "memory"
                                    /\ cfg.max_retries = 1 /\ cfg.timeout = 30
                                    /\ cfg.retry_on_status = DefaultRetryOnStatus },
                {}, {}, { {} }, TwinOff)

\* PermissionCacheManager.set_check_result(subjects, scope, action, result,
\* ttl, tenant_id, object_id)
set_check_result(c, subjects, tenant_id, result) ==
    /\ op[c].kind \in { "none", "set_check_result" }
    /\ nreq < MaxSets
    /\ nreq' = nreq + 1
    /\ LET key == _build_check_key(subjects, Scope, Action, tenant_id, None)
       IN  cache' = StoreSet("memory", "ok", cache, key,
                             Entry(result, now + config.cache_ttl, 0, Elems(subjects)))
    /\ op' = [op EXCEPT ![c] =
                [kind |-> "set_check_result",
                 stored |-> [subjects |-> subjects, tenant_id |-> tenant_id,
                             result |-> result],
                 subjects |-> << >>, tenant_id |-> None, subject |-> None,
                 status |-> "none", value |-> FALSE,
                 before |-> EmptyCache, deleted |-> 0, each |-> << >>]]
    /\ UNCHANGED << config, callers, menu, outs, cache_initialized, cache_manager,
                    now, granted, version, call, last_mut, twin >>

\* PermissionCacheManager.get_check_result(subjects, scope, action,
\* tenant_id, object_id): status "hit" with the value, or "miss" (None)
get_check_result(c, subjects, tenant_id) ==
    /\ op[c].kind = "set_check_result"
    /\ LET key == _build_check_key(subjects, Scope, Action, tenant_id, None)
           g == StoreGet("memory", "ok", cache, key, now)
       IN  /\ cache' = g.cache
           /\ op' = [op EXCEPT ![c].kind = "get_check_result",
                               ![c].subjects = subjects,
                               ![c].tenant_id = tenant_id,
                               ![c].status = g.status,
                               ![c].value = g.value]
    /\ UNCHANGED << config, callers, menu, outs, cache_initialized, cache_manager,
                    now, granted, version, call, nreq, last_mut, twin >>

\* PermissionCacheManager.invalidate_subject(subject) over the in-process
\* store; the call returns the number of keys delete_pattern deleted
ManagerInvalidate(c, subject) ==
    /\ op[c].kind = "set_check_result"
    /\ cache' = invalidate_subject("memory", "ok", cache, subject)
    /\ op' = [op EXCEPT ![c].kind = "invalidate_subject", ![c].subject = subject,
                        ![c].before = cache,
                        ![c].deleted = Cardinality(DOMAIN cache) - Cardinality(DOMAIN cache')]
    /\ UNCHANGED << config, callers, menu, outs, cache_initialized, cache_manager,
                    now, granted, version, call, nreq, last_mut, twin >>

\* a loop that returns the count of its last call instead of the sum
RECURSIVE invalidate_subjects_lastCount(_, _, _, _)
invalidate_subjects_lastCount(kind, f, c, subjects) ==
    IF subjects = << >> THEN [cache |-> c, total_deleted |-> 0, each |-> << >>]
    ELSE LET c1 == invalidate_subject(kind, f, c, Head(subjects))
             deleted == Cardinality(DOMAIN c) - Cardinality(DOMAIN c1)
             rest == invalidate_subjects_lastCount(kind, f, c1, Tail(subjects))
         IN  [cache |-> rest.cache,
              total_deleted |-> IF Tail(subjects) = << >> THEN deleted
                                ELSE rest.total_deleted,
              each |-> << deleted >> \o rest.each]

\* PermissionCacheManager.invalidate_subjects(subjects): the store
\* afterwards, the total returned, and what each invalidate_subject call of
\* the loop returned
RECURSIVE invalidate_subjects(_, _, _, _)
invalidate_subjects(kind, f, c, subjects) ==
    IF subjects = << >> THEN [cache |-> c, total_deleted |-> 0, each |-> << >>]
    ELSE LET c1 == invalidate_subject(kind, f, c, Head(subjects))
             deleted == Cardinality(DOMAIN c) - Cardinality(DOMAIN c1)
             rest == invalidate_subjects(kind, f, c1, Tail(subjects))
         IN  [cache |-> rest.cache,
              total_deleted |-> deleted + rest.total_deleted,
              each |-> << deleted >> \o rest.each]

\* PermissionCacheManager.invalidate_subjects(subjects) over the in-process
\* store
ManagerInvalidateMany(c, subjects) ==
    /\ op[c].kind = "set_check_result"
    /\ LET r == invalidate_subjects("memory", "ok", cache, subjects)
       IN  /\ cache' = r.cache
           /\ op' = [op EXCEPT ![c].kind = "invalidate_subjects",
                               ![c].subjects = subjects,
                               ![c].before = cache,
                               ![c].deleted = r.total_deleted,
                               ![c].each = r.each]
    /\ UNCHANGED << config, callers, menu, outs, cache_initialized, cache_manager,
                    now, granted, version, call, nreq, last_mut, twin >>

\* the batches: lists of check dictionaries
ManagerChecks ==
    LET CheckDicts ==
            { [subjects |-> l, scope |-> Scope, action |-> Action, tenant_id |-> t] :
                l \in SubjectLists(1, MaxSubjects), t \in ManagerTenants }
    IN  UNION { [1..n -> CheckDicts] : n \in 1..MaxChecks }

\* a hash over the normalised checks in the order given
_hash_checks_unsorted(checks) ==
    LET str(x) == << "\"" >> \o x \o << "\"" >>
        opt(x) == IF x = None THEN S_null ELSE str(x)
        dumps(check) ==
            << "{" >> \o str(check.action) \o << ",", " " >> \o S_null
            \o << ",", " " >> \o S_null \o << ",", " " >> \o str(check.scope)
            \o << ",", " ", "[" >>
            \o join(<< ",", " " >>,
                    [i \in 1..Len(check.subjects) |-> str(sorted(check.subjects)[i])])
            \o << "]", ",", " " >> \o opt(check.tenant_id) \o << "}" >>
        normalized == [i \in 1..Len(checks) |-> dumps(checks[i])]
    IN  << "[" >> \o join(<< ",", " " >>, normalized) \o << "]" >>

\* PermissionCacheManager._hash_checks: each check is normalised (subjects
\* sorted; scope, action, tenant_id, object_id, check_id), the normalised
\* checks are sorted by their json.dumps(sort_keys=True) text, and the JSON
\* text of the sorted list is hashed.  dumps is that text without the field
\* names, which are the same in every check: the values in the order of the
\* sorted keys (action, check_id, object_id, scope, subjects, tenant_id).
\* The digest is a function of the text alone and stands here as the text
\* itself.
_hash_checks(checks) ==
    LET str(x) == << "\"" >> \o x \o << "\"" >>
        opt(x) == IF x = None THEN S_null ELSE str(x)
        dumps(check) ==
            << "{" >> \o str(check.action) \o << ",", " " >> \o S_null
            \o << ",", " " >> \o S_null \o << ",", " " >> \o str(check.scope)
            \o << ",", " ", "[" >>
            \o join(<< ",", " " >>,
                    [i \in 1..Len(check.subjects) |-> str(sorted(check.subjects)[i])])
            \o << "]", ",", " " >> \o opt(check.tenant_id) \o << "}" >>
        normalized == sorted([i \in 1..Len(checks) |-> dumps(checks[i])])
    IN  << "[" >> \o join(<< ",", " " >>, normalized) \o << "]" >>

\* PermissionCacheManager._build_check_many_key
_build_check_many_key(checks_hash) ==
    cache_prefix \o << ":", "c", "h", "e", "c", "k", "_", "m", "a", "n", "y", ":" >>
    \o checks_hash

\* PermissionCacheManager.set_check_many_result(checks, results, ttl)
set_check_many_result(c, checks, results) ==
    /\ op[c].kind = "none"
    /\ LET key == _build_check_many_key(_hash_checks(checks))
       IN  cache' = StoreSet("memory", "ok", cache, key,
                             Entry(results, now + config.cache_ttl, 0, {}))
    /\ op' = [op EXCEPT ![c] =
                [kind |-> "set_check_many_result",
                 stored |-> [checks |-> checks, results |-> results],
                 checks |-> << >>, status |-> "none", value |-> << >>]]
    /\ UNCHANGED << config, callers, menu, outs, cache_initialized, cache_manager,
                    now, granted, version, call, nreq, last_mut, twin >>

\* PermissionCacheManager.get_check_many_result(checks): status "hit" with
\* the cached results, or "miss" (None)
get_check_many_result(c, checks) ==
    /\ op[c].kind = "set_check_many_result"
    /\ LET key == _build_check_many_key(_hash_checks(checks))
           g == StoreGet("memory", "ok", cache, key, now)
       IN  /\ cache' = g.cache
           /\ op' = [op EXCEPT ![c].kind = "get_check_many_result",
                               ![c].checks = checks,
                               ![c].status = g.status,
                               ![c].value = g.value]
    /\ UNCHANGED << config, callers, menu, outs, cache_initialized, cache_manager,
                    now, granted, version, call, nreq, last_mut, twin >>

\* PermissionCacheManager.invalidate_all_checks() over the in-process store:
\* delete_pattern(f"{prefix}:check:*"); the call returns the number of keys
\* delete_pattern deleted
invalidate_all_checks(c) ==
    /\ op[c].kind \in { "set_check_result", "set_check_many_result" }
    /\ LET pattern == cache_prefix \o << ":", "c", "h", "e", "c", "k", ":", "*" >>
       IN  cache' = StoreDeletePattern("memory", "ok", cache, pattern)
    /\ op' = [op EXCEPT ![c] =
                [kind |-> "invalidate_all_checks", after |-> op[c].kind,
                 stored |-> op[c].stored, before |-> cache,
                 deleted |-> Cardinality(DOMAIN cache) - Cardinality(DOMAIN cache')]]
    /\ UNCHANGED << config, callers, menu, outs, cache_initialized, cache_manager,
                    now, granted, version, call, nreq, last_mut, twin >>

NextManager ==
    \/ \E c \in callers, l \in ManagerLists, t \in ManagerTenants, v \in BOOLEAN :
         set_check_result(c, l, t, v)
    \/ \E c \in callers, l \in ManagerLists, t \in ManagerTenants :
         get_check_result(c, l, t)
    \/ \E c \in callers, x \in Subjects \cup { SubjLong } : ManagerInvalidate(c, x)
    \/ \E c \in callers, l \in ManagerLists : ManagerInvalidateMany(c, l)
    \/ \E c \in callers, l \in ManagerChecks, v \in BOOLEAN :
         set_check_many_result(c, l, [i \in 1..Len(l) |-> v])
    \/ \E c \in callers, l \in ManagerChecks : get_check_many_result(c, l)
    \/ \E c \in callers : invalidate_all_checks(c)

SpecManager == InitManager /\ [][NextManager]_vars

\* the manager called with a tenant id that is absent or is the string
\* "null" (tenant_id is any string; the subjects, scope and action are ones
\* SUBJECT_PATTERN, SCOPE_PATTERN and ACTION_PATTERN accept)
NextKeys ==
    \/ \E c \in callers, l \in SubjectLists(1, MaxSubjects), t \in { None, S_null },
          v \in BOOLEAN :
         set_check_result(c, l, t, v)
    \/ \E c \in callers, l \in SubjectLists(1, MaxSubjects), t \in { None, S_null } :
         get_check_result(c, l, t)

SpecKeys == InitManager /\ [][NextKeys]_vars

\* ------------------------------------------------------------------ claims
\* a caller's sync request has just ended (returned or raised)
Done(c) == call[c].pc = "done" /\ call[c].transport = "sync"

Caching == cache_manager # "None"

\* C1: when a grant / grant-many / revoke / revoke-many request returns
\* successfully with caching enabled, the cache holds no check entry whose
\* subject list contains a subject named in the mutation's body
C1_NoEntryForMutatedSubject ==
    \A c \in callers :
        ( /\ Done(c) /\ Caching
          /\ IsMutation(call[c].req)
          /\ call[c].result.kind = "ok" )
        => \A k \in DOMAIN cache :
              cache[k].subjects \cap NamedSubjects(call[c].req) = {}

\* C2: for a single sequential caller, a check that follows a successful
\* mutation of one of its subjects is not served the decision cached before
\* that mutation: it is a miss and returns the service's answer
C2_CheckAfterMutationIsMiss ==
    Cardinality(callers) = 1 =>
        \A c \in callers :
            ( /\ Done(c) /\ Caching
              /\ IsSingleCheck(call[c].req)
              /\ \E s \in Elems(call[c].req.json.subjects) :
                    call[c].start_mut[s] > call[c].result.ver )
            => call[c].result.source = "http"

\* C3: with several callers sharing one transport and cache, a check that
\* starts after a successful mutation of one of its subjects has returned is
\* never served from the cache a decision read from the service before that
\* mutation
C3_NoStaleDecisionAfterMutation ==
    \A c \in callers :
        ( /\ Done(c) /\ Caching
          /\ IsSingleCheck(call[c].req)
          /\ call[c].result.source = "cache" )
        => \A s \in Elems(call[c].req.json.subjects) :
              call[c].start_mut[s] <= call[c].result.ver

\* the step in which caller c's cache lookup ends
LookupStep(c) == call[c].pc = "lookup" /\ call'[c].pc # "lookup"

\* the key of c's check is in the cache and has not expired
KeyFresh(c) ==
    /\ CheckKey(call[c].req) \in DOMAIN cache
    /\ now <= cache[CheckKey(call[c].req)].expires_at

\* c's request ends in this step with {"allowed": cached value} and has made
\* no HTTP attempt
HitResult(c) ==
    /\ call'[c].pc = "done"
    /\ call'[c].result.kind = "ok"
    /\ call'[c].result.source = "cache"
    /\ call'[c].result.has_allowed
    /\ call'[c].result.allowed = cache[CheckKey(call[c].req)].value
    /\ call'[c].attempts = 0

\* C4 as stated: a single check whose key is present and unexpired in the
\* cache returns {"allowed": cached value} without any HTTP attempt
C4_HitWithoutHttp_AsStated ==
    [][\A c \in callers : (LookupStep(c) /\ KeyFresh(c)) => HitResult(c)]_vars

\* C4: a single check whose key is present and unexpired in the cache, and
\* whose read of the store succeeds, returns {"allowed": cached value}
\* without any HTTP attempt
C4_HitWithoutHttp ==
    [][\A c \in callers :
          (LookupStep(c) /\ KeyFresh(c) /\ ~ call'[c].faulted) => HitResult(c)]_vars

\* a check has just been answered from the cache, with a negative decision,
\* and no HTTP attempt was made
C4_Witness ==
    \E c \in callers :
        /\ Done(c) /\ IsSingleCheck(call[c].req)
        /\ call[c].result.source = "cache" /\ ~ call[c].result.allowed
        /\ call[c].attempts = 0 /\ ~ call[c].faulted
        /\ CheckKey(call[c].req) \in DOMAIN cache

\* the step in which caller c's write-through ends
WriteStep(c) == call[c].pc = "write" /\ call'[c].pc # "write"

\* get(key) at time t on the store as the step leaves it, the read succeeding
LaterGet(c, t) ==
    StoreGet(cache_manager, "ok",
             IF cache_manager = "redis" THEN RedisExpire(cache', t) ELSE cache',
             CheckKey(call[c].req), t)

\* after the step the store holds the response's "allowed" (False when the
\* body has none) under the check key, expiring cache_ttl from now, and an
\* identical check at any instant before that is a hit with the same value
Stored(c) ==
    LET k == CheckKey(call[c].req)
        h == call[c].http_result
        v == IF h.has_allowed THEN h.allowed ELSE FALSE
    IN  /\ call[c].attempts >= 1
        /\ h.kind = "ok"
        /\ k \in DOMAIN cache'
        /\ cache'[k].value = v
        /\ cache'[k].expires_at = now + config.cache_ttl
        /\ \A t \in now..(now + config.cache_ttl - 1) :
              LaterGet(c, t).status = "hit" /\ LaterGet(c, t).value = v

\* C5 as stated: a single check that missed and whose HTTP call succeeded
\* stores the response's "allowed" under its key with TTL = cache_ttl, so
\* that an identical check before the TTL elapses is a hit with that value
C5_WriteThrough_AsStated ==
    [][\A c \in callers : WriteStep(c) => Stored(c)]_vars

\* C5: the same when the cache backend is the in-process or the Redis store
\* and the store's set succeeds (the hit being a read that succeeds)
C5_WriteThrough ==
    [][\A c \in callers :
          ( /\ WriteStep(c)
            /\ cache_manager \in { "memory", "redis" }
            /\ ~ call'[c].faulted ) => Stored(c)]_vars

\* a check that missed has just returned the service's positive answer and
\* left it in the cache
C5_Witness ==
    \E c \in callers :
        /\ Done(c) /\ IsSingleCheck(call[c].req)
        /\ call[c].result.source = "http" /\ call[c].result.allowed
        /\ call[c].attempts >= 1 /\ ~ call[c].faulted
        /\ CheckKey(call[c].req) \in DOMAIN cache
        /\ cache[CheckKey(call[c].req)].value
        /\ cache[CheckKey(call[c].req)].expires_at = now + config.cache_ttl

\* C6: when a grant / revoke request (single or batch) ends in an error, no
\* invalidation was performed: the request made no delete_pattern call, has
\* none pending, and the step that ends it leaves the cache as it was
C6_NoInvalidationOnFailure ==
    [][\A c \in callers :
          ( /\ call'[c].pc = "done" /\ call[c].pc # "done"
            /\ IsMutation(call'[c].req)
            /\ call'[c].result.kind = "error" )
          => /\ cache' = cache
             /\ call'[c].deletes = 0
             /\ call'[c].pending = {}
             /\ call[c].pc = "sending"]_vars

\* a grant / revoke has just failed after exhausting its retries while the
\* cache holds a decision for the subject it names
C6_Witness ==
    \E c \in callers :
        /\ Done(c) /\ Caching /\ IsMutation(call[c].req)
        /\ call[c].result.kind = "error"
        /\ call[c].attempts = config.max_retries + 1
        /\ call[c].deletes = 0
        /\ \E k \in DOMAIN cache :
              /\ cache[k].subjects \cap NamedSubjects(call[c].req) # {}
              /\ fnmatch(k, _build_subject_pattern(call[c].req.json.subject))

\* C7: an exception raised by the cache store during a check's lookup or
\* write-through or during a mutation's invalidation never reaches the
\* caller: the request ends with exactly what its HTTP call produced
C7_CacheExceptionsAbsorbed ==
    \A c \in callers :
        (Done(c) /\ call[c].raised)
        => /\ call[c].attempts >= 1
           /\ call[c].result = call[c].http_result
           /\ call[c].result.source = "http"
           /\ call[c].result.err.type # "CacheError"

\* a check during which the cache store raised has returned the service's
\* answer, and nothing was cached
C7_Witness ==
    \E c \in callers :
        /\ Done(c) /\ call[c].raised
        /\ IsSingleCheck(call[c].req)
        /\ call[c].result.kind = "ok" /\ call[c].result.has_allowed
        /\ cache = EmptyCache

\* C8: whatever the attempts end in, the retry loop (of both transports)
\* makes at most max_retries + 1 HTTP attempts, and a request that has made
\* that many is over: it makes no further attempt
C8_AttemptsBounded ==
    \A c \in callers :
        /\ call[c].attempts <= config.max_retries + 1
        /\ call[c].attempts = config.max_retries + 1 => call[c].pc # "sending"
        /\ call[c].pc = "sending" => call[c].attempts = call[c].attempt

\* a request has ended after max_retries + 1 attempts, max_retries >= 2
C8_Witness ==
    \E c \in callers :
        /\ call[c].pc = "done"
        /\ config.max_retries >= 2
        /\ call[c].attempts = config.max_retries + 1

\* C9: a request whose every attempt timed out has made exactly
\* max_retries + 1 attempts, waited after each of the first max_retries, and
\* raises TimeoutError carrying the configured timeout
C9_AllTimeouts ==
    \A c \in callers :
        ( /\ call[c].pc = "done"
          /\ call[c].attempts >= 1
          /\ call[c].timeouts = call[c].attempts )
        => /\ call[c].attempts = config.max_retries + 1
           /\ call[c].waits = config.max_retries
           /\ call[c].result.kind = "error"
           /\ call[c].result.err.type = "TimeoutError"
           /\ call[c].result.err.timeout = config.timeout

\* a request with max_retries >= 1 and a non-default timeout has ended
\* after timing out on every attempt
C9_Witness ==
    \E c \in callers :
        /\ call[c].pc = "done"
        /\ config.max_retries >= 1 /\ config.timeout # 30
        /\ call[c].timeouts = call[c].attempts
        /\ call[c].attempts = config.max_retries + 1

\* C10: a request whose every attempt failed to connect has made
\* max_retries + 1 attempts and raises NetworkError; NetworkError reaches
\* the caller only from the last of max_retries + 1 attempts
C10_AllNetworkFailures ==
    \A c \in callers :
        /\ ( /\ call[c].pc = "done"
              /\ call[c].attempts >= 1
              /\ call[c].networks = call[c].attempts )
           => /\ call[c].attempts = config.max_retries + 1
              /\ call[c].waits = config.max_retries
              /\ call[c].result.kind = "error"
              /\ call[c].result.err.type = "NetworkError"
        /\ (call[c].pc = "done" /\ call[c].result.err.type = "NetworkError")
           => /\ call[c].attempts = config.max_retries + 1
              /\ call[c].last_t = "network"

\* a request with max_retries >= 1 has ended after failing to connect on
\* every attempt
C10_Witness ==
    \E c \in callers :
        /\ call[c].pc = "done"
        /\ config.max_retries >= 1
        /\ call[c].networks = call[c].attempts
        /\ call[c].attempts = config.max_retries + 1
        /\ call[c].result.err.type = "NetworkError"

\* C11: a response whose status is in config.retry_on_status, received
\* while attempts remain, is followed by a backoff wait and another attempt:
\* the error mapped from such a status reaches the caller only from the
\* final attempt, number max_retries + 1
C11_RetryableStatusRetried ==
    \A c \in callers :
        ( /\ call[c].pc = "done"
          /\ call[c].last_t = "response"
          /\ call[c].result.kind = "error"
          /\ call[c].result.err.status \in config.retry_on_status )
        => call[c].attempts = config.max_retries + 1

\* C12: a response whose status is not in config.retry_on_status ends the
\* request's HTTP exchange with that attempt: the step that receives it
\* leaves the retry loop without a backoff wait, and a request that has left
\* the loop makes no further attempt
C12_NonRetryableStatusEnds ==
    [][ \A c \in callers :
          /\ ( /\ call[c].pc = "sending"
               /\ call'[c].attempts = call[c].attempts + 1
               /\ call'[c].last_t = "response"
               /\ call'[c].last_status \notin config.retry_on_status )
             => ( /\ call'[c].pc # "sending"
                  /\ call'[c].waits = call[c].waits
                  /\ call'[c].attempt = call[c].attempt )
          /\ call[c].pc \in { "write", "invalidate", "done" }
             => ( call'[c].pc # "sending"
                  /\ (call'[c].pc # "idle" => call'[c].attempts = call[c].attempts) )
      ]_vars

\* a 401 received on the second of three allowed attempts has ended the
\* request: two attempts, one wait (for the timeout before it)
C12_Witness ==
    \E c \in callers :
        /\ call[c].pc = "done"
        /\ config.max_retries = 2
        /\ call[c].last_t = "response"
        /\ call[c].last_status = 401
        /\ call[c].attempts = 2
        /\ call[c].waits = 1
        /\ call[c].result.kind = "error"
        /\ call[c].result.err.type = "AuthenticationError"

\* C13: the status of the last response alone determines the terminal
\* result: 401 -> AuthenticationError, 400 -> ValidationError, 404 ->
\* ResourceNotFoundError, 429 -> RateLimitError whose retry_after is the
\* Retry-After header's number (None without the header), 5xx and every other
\* non-2xx status -> ServerError, each carrying the status; after a 2xx the
\* mapping has raised none of these
C13_StatusMappingTotal ==
    \A c \in callers :
        (call[c].pc = "done" /\ call[c].last_t = "response") =>
            LET s == call[c].last_status
                e == call[c].result.err
            IN  IF 200 <= s /\ s < 300
                THEN e.type \notin Taxonomy
                ELSE /\ call[c].result.kind = "error"
                     /\ e.status = s
                     /\ e.type = IF s = 401 THEN "AuthenticationError"
                                 ELSE IF s = 400 THEN "ValidationError"
                                 ELSE IF s = 404 THEN "ResourceNotFoundError"
                                 ELSE IF s = 429 THEN "RateLimitError"
                                 ELSE "ServerError"
                     /\ (s = 429 /\ call[c].last_header = None) => e.retry_after = None
                     /\ (s = 429 /\ call[c].last_header = RetryAfterSeconds)
                            => e.retry_after = << 7 >>

\* C14: a request whose last response had status 409 raises ConflictError
C14_ConflictSurfaced ==
    \A c \in callers :
        (call[c].pc = "done" /\ call[c].last_t = "response" /\ call[c].last_status = 409)
        => (call[c].result.kind = "error" /\ call[c].result.err.type = "ConflictError")

\* C15: every failure request() surfaces is of a class of the SDK's error
\* taxonomy, whatever the attempts ended in
C15_ClosedTaxonomy ==
    \A c \in callers :
        (call[c].pc = "done" /\ call[c].result.kind = "error")
        => call[c].result.err.type \in Taxonomy

\* C16: a transport with caching enabled over the no-op store and a transport
\* with caching disabled, given the same requests and the same responses,
\* make the same HTTP attempts and return the same results: the two never
\* part, they stand at the same iteration of the retry loop after the same
\* number of attempts and waits, the caching one's cache operations fall
\* where the other has not yet sent or has already finished, and when the
\* caching one is over so is the other, with the same result; nothing is
\* ever stored
C16_NoopStoreChangesNothing ==
    \A c \in callers :
        twin[c].pc # "off" =>
            /\ twin[c].pc # "diverged"
            /\ cache = EmptyCache
            /\ twin[c].attempts = call[c].attempts
            /\ twin[c].waits = call[c].waits
            /\ call[c].pc = "idle" => twin[c].pc = "idle"
            /\ call[c].pc = "lookup" => (twin[c].pc = "sending" /\ twin[c].attempts = 0)
            /\ call[c].pc = "sending" =>
                   (twin[c].pc = "sending" /\ twin[c].attempt = call[c].attempt)
            /\ call[c].pc \in { "write", "invalidate" } =>
                   (twin[c].pc = "done" /\ twin[c].result = call[c].http_result)
            /\ call[c].pc = "done" =>
                   (twin[c].pc = "done" /\ twin[c].result = call[c].result)

\* a check that went through the no-op store's lookup and write-through has
\* returned what the service answered, as its twin has, after a retry
C16_Witness ==
    \E c \in callers :
        /\ twin[c].pc = "done"
        /\ Done(c)
        /\ cache_manager = "noop"
        /\ IsSingleCheck(call[c].req)
        /\ call[c].attempts = 2
        /\ call[c].result.kind = "ok"
        /\ call[c].result.allowed
        /\ twin[c].result = call[c].result

\* C17: under a configuration with caching enabled a single check on the
\* async transport goes through the cache as it does on the sync transport
\* (whose cache manager was built): a finished check with a non-empty body
\* has looked its key up, and one that the service answered has also written
\* the answer through
C17_AsyncSameProtocol ==
    \A c \in callers :
        ( /\ call[c].pc = "done"
          /\ config.cache_enabled
          /\ call[c].transport = "sync" => cache_manager # "None"
          /\ IsSingleCheck(call[c].req)
          /\ call[c].req.json.truthy )
        => /\ call[c].cache_ops >= 1
           /\ (call[c].result.kind = "ok" /\ call[c].result.source = "http")
                 => call[c].cache_ops = 2

\* the map a method leaves when it runs alone on the map m
RunAlone(o, m) ==
    IF o.kind = "get" THEN StoreGet("memory", "ok", m, o.key, now).cache
    ELSE IF o.kind = "set"
    THEN StoreSet("memory", "ok", m, o.key, Entry(TRUE, now + config.cache_ttl, 0, {}))
    ELSE IF o.kind = "delete" THEN Restrict(m, DOMAIN m \ { o.key })
    ELSE StoreDeletePattern("memory", "ok", m, o.key)

\* C18: whatever the interleaving of the threads' get / set / delete /
\* delete_pattern calls on the in-process store, no call raises, and once
\* all calls have returned the map is the one some sequential order of the
\* calls leaves
C18_StoreToleratesThreads ==
    /\ \A c \in callers : op[c].pc # "raised"
    /\ (\A c \in callers : op[c].pc = "returned") =>
          \E a, b \in callers :
              /\ a # b
              /\ cache = RunAlone(op[b], RunAlone(op[a], op[a].start))

\* b lists the elements of a in some order
IsPermutation(a, b) ==
    /\ Len(a) = Len(b)
    /\ \E f \in [1..Len(a) -> 1..Len(a)] :
          /\ \A i, j \in 1..Len(a) : i # j => f[i] # f[j]
          /\ \A i \in 1..Len(a) : b[i] = a[f[i]]

\* C19: the check key does not depend on the order of the subject list: a
\* list and any permutation of it (same scope, action, tenant and object)
\* build the same key, and get_check_result for the permutation returns the
\* result that set_check_result stored for the list
C19_KeyOrderIndependent ==
    \A c \in callers :
        ( /\ op[c].kind = "get_check_result"
          /\ IsPermutation(op[c].stored.subjects, op[c].subjects)
          /\ op[c].tenant_id = op[c].stored.tenant_id )
        => /\ _build_check_key(op[c].subjects, Scope, Action, op[c].tenant_id, None)
                = _build_check_key(op[c].stored.subjects, Scope, Action,
                                   op[c].stored.tenant_id, None)
           /\ op[c].status = "hit"
           /\ op[c].value = op[c].stored.result

\* the result stored for [u[1], u:1] has been returned for [u:1, u[1]]
C19_Witness ==
    \E c \in callers :
        /\ op[c].kind = "get_check_result"
        /\ op[c].stored.subjects = << SubjBracket, SubjValid >>
        /\ op[c].subjects = << SubjValid, SubjBracket >>
        /\ op[c].tenant_id = op[c].stored.tenant_id
        /\ op[c].stored.result
        /\ op[c].status = "hit"
        /\ op[c].value

\* C20: invalidate_subject(X) removes every cached check whose subject list
\* contains X: the pattern built for X matches the key built for the list,
\* and after the call the entry stored for the list is gone
C20_InvalidationComplete ==
    \A c \in callers :
        ( /\ op[c].kind = "invalidate_subject"
          /\ op[c].subject \in Elems(op[c].stored.subjects) )
        => /\ fnmatch(_build_check_key(op[c].stored.subjects, Scope, Action,
                                       op[c].stored.tenant_id, None),
                      _build_subject_pattern(op[c].subject))
           /\ _build_check_key(op[c].stored.subjects, Scope, Action,
                               op[c].stored.tenant_id, None) \notin DOMAIN cache

\* C21: invalidation leaves the other subjects' entries alone: after
\* invalidate_subject(X) or invalidate_subjects(L), every cached check whose
\* subject list holds neither X nor a member of L is still in the cache,
\* unchanged (so the count returned covers only checks that involved X)
C21_InvalidationLeavesOthers ==
    \A c \in callers :
        LET named == IF op[c].kind = "invalidate_subject" THEN { op[c].subject }
                     ELSE Elems(op[c].subjects)
        IN  op[c].kind \in { "invalidate_subject", "invalidate_subjects" }
            => \A k \in DOMAIN op[c].before :
                   op[c].before[k].subjects \cap named = {}
                   => k \in DOMAIN cache /\ cache[k] = op[c].before[k]

\* the store after the first i calls of the loop over l, each call taken on
\* its own
RECURSIVE CacheAfter(_, _, _)
CacheAfter(c0, l, i) ==
    IF i = 0 THEN c0
    ELSE invalidate_subject("memory", "ok", CacheAfter(c0, l, i - 1), l[i])

RECURSIVE Sum(_)
Sum(q) == IF q = << >> THEN 0 ELSE Head(q) + Sum(Tail(q))

\* C26: invalidate_subjects(L) calls invalidate_subject once for each
\* element of L, in order and without removing repeats, and returns the sum
\* of the counts those calls returned
C26_InvalidateSubjectsSums ==
    \A c \in callers :
        op[c].kind = "invalidate_subjects"
        => LET l == op[c].subjects
           IN  /\ Len(op[c].each) = Len(l)
               /\ \A i \in 1..Len(l) :
                     op[c].each[i]
                       = Cardinality(DOMAIN CacheAfter(op[c].before, l, i - 1))
                         - Cardinality(DOMAIN CacheAfter(op[c].before, l, i))
               /\ op[c].deleted = Sum(op[c].each)
               /\ cache = CacheAfter(op[c].before, l, Len(l))

\* invalidate_subjects([u:1, u:1]) over two entries for u:1: the first call
\* deleted both, the repeat ran again and deleted none, and 2 was returned
C26_Witness ==
    \E c \in callers :
        /\ op[c].kind = "invalidate_subjects"
        /\ op[c].subjects = << SubjValid, SubjValid >>
        /\ op[c].each = << 2, 0 >>
        /\ op[c].deleted = 2

\* b is a reordering of the batch a: the same checks in any order, the
\* subjects of each check in any order
Reordered(a, b) ==
    /\ Len(a) = Len(b)
    /\ \E f \in [1..Len(a) -> 1..Len(a)] :
          /\ \A i, j \in 1..Len(a) : i # j => f[i] # f[j]
          /\ \A i \in 1..Len(a) :
                /\ IsPermutation(a[f[i]].subjects, b[i].subjects)
                /\ [b[i] EXCEPT !.subjects = << >>] = [a[f[i]] EXCEPT !.subjects = << >>]

\* C27: the batch key does not depend on the order of the check list or of
\* the subjects inside each check: a batch and any reordering of it have
\* the same hash and the same check_many key, and get_check_many_result for
\* the reordering returns what set_check_many_result stored for the batch
C27_BatchKeyStable ==
    \A c \in callers :
        ( /\ op[c].kind = "get_check_many_result"
          /\ Reordered(op[c].stored.checks, op[c].checks) )
        => /\ _hash_checks(op[c].checks) = _hash_checks(op[c].stored.checks)
           /\ _build_check_many_key(_hash_checks(op[c].checks))
                = _build_check_many_key(_hash_checks(op[c].stored.checks))
           /\ op[c].status = "hit"
           /\ op[c].value = op[c].stored.results

\* results stored for two checks were returned for the same checks in the
\* other order, with the subjects of one of them in the other order too
C27_Witness ==
    \E c \in callers :
        /\ op[c].kind = "get_check_many_result"
        /\ Len(op[c].checks) = 2
        /\ Len(op[c].stored.checks) = 2
        /\ op[c].checks # op[c].stored.checks
        /\ op[c].checks[1].subjects = << SubjValid, SubjBracket >>
        /\ op[c].stored.checks[2].subjects = << SubjBracket, SubjValid >>
        /\ op[c].stored.checks[1] # op[c].stored.checks[2]
        /\ Reordered(op[c].stored.checks, op[c].checks)
        /\ op[c].status = "hit"
        /\ op[c].value = op[c].stored.results

\* a method of the in-process store has returned to caller c
Returned(c, kinds) ==
    cache_manager = "memory" /\ op[c].pc = "returned" /\ op[c].kind \in kinds

\* the entry is live at instant t: it has no expiry, or t is not past it
Live(entry, t) == entry.expires_at = NoExpiry \/ t <= entry.expires_at

\* C22: round trip of the in-process store: set(k, v, ttl) returns True and
\* leaves k holding v, whether k was absent or held another value, and
\* every other key as it was; get(k) at an instant not past the entry's
\* expiry returns the value the entry holds, for every v (False, 0, empty,
\* None and non-empty values alike)
C22_RoundTrip ==
    \A c \in callers :
        /\ Returned(c, { "set" })
           => /\ op[c].result = TRUE
              /\ DOMAIN cache = DOMAIN op[c].before \cup { op[c].key }
              /\ cache[op[c].key].value = op[c].value
              /\ \A k \in DOMAIN op[c].before \ { op[c].key } : cache[k] = op[c].before[k]
        /\ ( /\ Returned(c, { "get" })
             /\ op[c].key \in DOMAIN op[c].before
             /\ Live(op[c].before[op[c].key], op[c].at) )
           => /\ op[c].result = op[c].before[op[c].key].value
              /\ cache = op[c].before

\* get(k) at instant 1 returned the False stored for k with an expiry of 1
C22_Witness ==
    \E c \in callers :
        /\ Returned(c, { "get" })
        /\ op[c].key \in DOMAIN op[c].before
        /\ op[c].before[op[c].key].expires_at = 1
        /\ op[c].at = 1
        /\ op[c].before[op[c].key].value = "False"
        /\ op[c].result = "False"

\* C23: expiry in the in-process store: set(k, v, ttl) gives the entry the
\* expiry instant (time of the call) + ttl, or none when ttl is None; get(k)
\* and exists(k) at an instant strictly past the expiry return None / False
\* and remove the entry, leaving the other keys alone; an entry without
\* expiry is returned by get at every instant and stays in the map.  So
\* set(k, v, ttl=0), any positive delay, get(k) returns None.
C23_Expiry ==
    \A c \in callers :
        /\ Returned(c, { "set" })
           => cache[op[c].key].expires_at
                = IF op[c].ttl = None THEN NoExpiry ELSE op[c].at + op[c].ttl[1]
        /\ ( Returned(c, { "get", "exists" }) /\ op[c].key \in DOMAIN op[c].before )
           => LET entry == op[c].before[op[c].key]
              IN  /\ ~ Live(entry, op[c].at)
                     => /\ op[c].result = IF op[c].kind = "get" THEN "None" ELSE FALSE
                        /\ cache = Restrict(op[c].before,
                                             DOMAIN op[c].before \ { op[c].key })
                  /\ entry.expires_at = NoExpiry
                     => /\ op[c].kind = "get" => op[c].result = entry.value
                        /\ cache = op[c].before

\* get(k) at instant 1 found the entry 'v' stored at instant 0 with ttl = 0,
\* returned None and removed it
C23_Witness ==
    \E c \in callers :
        /\ Returned(c, { "get" })
        /\ op[c].key \in DOMAIN op[c].before
        /\ op[c].before[op[c].key].expires_at = 0
        /\ op[c].before[op[c].key].value = "'v'"
        /\ op[c].at = 1
        /\ op[c].result = "None"
        /\ op[c].key \notin DOMAIN cache

\* C24: delete_pattern(glob) on the in-process store removes exactly the
\* keys that match the glob, returns how many they were and leaves every
\* other key with its value and expiry; delete(k) returns True and removes
\* only k when k is in the map, and returns False and changes nothing when
\* it is not
C24_DeleteExact ==
    \A c \in callers :
        /\ Returned(c, { "delete_pattern" })
           => LET matching == { k \in DOMAIN op[c].before : fnmatch(k, op[c].key) }
              IN  /\ cache = Restrict(op[c].before, DOMAIN op[c].before \ matching)
                  /\ op[c].result = Cardinality(matching)
        /\ Returned(c, { "delete" })
           => /\ op[c].result = (op[c].key \in DOMAIN op[c].before)
              /\ cache = Restrict(op[c].before, DOMAIN op[c].before \ { op[c].key })

\* delete_pattern over a map of two keys removed the one that matched,
\* returned 1 and kept the other
C24_Witness ==
    \E c \in callers :
        /\ Returned(c, { "delete_pattern" })
        /\ Cardinality(DOMAIN op[c].before) = 2
        /\ op[c].result = 1
        /\ Cardinality(DOMAIN cache) = 1

\* C25: the no-op store: whatever was called before, get returns None and
\* exists False for every key, set and clear return True, delete returns
\* False and delete_pattern 0, nothing is kept and no method raises
C25_NoOpStore ==
    \A c \in callers :
        cache_manager = "noop"
        => /\ cache = EmptyCache
           /\ op[c].pc # "raised"
           /\ op[c].pc = "returned"
              => \/ op[c].kind = "get" /\ op[c].result = "None"
                 \/ op[c].kind = "exists" /\ op[c].result = FALSE
                 \/ op[c].kind \in { "set", "clear" } /\ op[c].result = TRUE
                 \/ op[c].kind = "delete" /\ op[c].result = FALSE
                 \/ op[c].kind = "delete_pattern" /\ op[c].result = 0

\* the third call on a no-op store, a get, returned None
C25_Witness ==
    \E c \in callers :
        /\ cache_manager = "noop"
        /\ nreq = MaxRequests
        /\ op[c].pc = "returned"
        /\ op[c].kind = "get"
        /\ op[c].result = "None"

C29_BackoffStrictlyIncreasing ==
    \A c \in callers :
        op[c].kind = "_wait_for_retry"
        => /\ \A i \in 1..Len(op[c].waits) :
                 op[c].waits[i] = config.retry_backoff * (config.retry_multiplier ^ (i - 1))
           /\ \A i, j \in 1..Len(op[c].waits) : i < j => op[c].waits[i] < op[c].waits[j]

\* C30: backend selection does not fail the caller: create_cache_service_async
\* returns the in-process store for 'redis' whenever the URL is missing, the
\* client cannot be built or the ping fails or raises, and for 'memory'; the
\* no-op store for 'none' and for a disabled cache; and a transport whose
\* initialisation raised has no cache manager, has raised nothing and sends
\* its requests by HTTP
C30_BackendSelectionNeverFails ==
    \A c \in callers :
        /\ op[c].kind = "create_cache_service"
           => op[c].service
                = IF ~ config.cache_enabled \/ config.cache_type = "none" THEN "noop"
                  ELSE IF config.cache_type = "memory" THEN "memory"
                  ELSE IF op[c].env = "ok" THEN "redis"
                  ELSE "memory"
        /\ (cache_initialized /\ cache_manager = "None")
           => /\ ~ call[c].raised
              /\ call[c].pc \in { "idle", "sending" }
        /\ (cache_initialized /\ config.cache_enabled /\ cache_manager # "None")
           => cache_manager
                \in IF config.cache_type = "none" THEN { "noop" }
                    ELSE IF config.cache_type = "memory" THEN { "memory" }
                    ELSE { "redis", "memory" }

\* the ping of a Redis backend raised and the in-process store was returned
C30_Witness ==
    \E c \in callers :
        /\ op[c].kind = "create_cache_service"
        /\ config.cache_enabled
        /\ config.cache_type = "redis"
        /\ op[c].env = "ping_raises"
        /\ op[c].service = "memory"

\* a POST to .../permissions/check-many
IsCheckMany(r) ==
    r.method = "POST" /\ Contains(r.endpoint, M_permissions_check_many)

\* C31: a check-many request with caching enabled never reads the cache and
\* never writes to it: it goes straight to the HTTP call, none of its steps
\* calls the cache manager or changes the cache, and it ends only after an
\* HTTP attempt
C31_CheckManyBypassesCache ==
    [][ \A c \in callers :
          ( /\ call'[c] # call[c]
            /\ Caching'
            /\ call[c].transport = "sync" /\ call'[c].transport = "sync"
            /\ \/ call[c].pc # "idle" /\ IsCheckMany(call[c].req)
               \/ call'[c].pc # "idle" /\ IsCheckMany(call'[c].req) )
          => /\ cache' = cache
             /\ call'[c].cache_ops = 0
             /\ call'[c].pc \in { "idle", "sending", "done" }
             /\ call'[c].pc = "done" => call'[c].attempts >= 1 ]_vars

\* a check-many request has been answered with a 2xx while the cache held an
\* entry, and it called the cache manager not once
C31_Witness ==
    \E c \in callers :
        /\ Done(c) /\ Caching
        /\ cache_manager \in { "memory", "redis" }
        /\ IsCheckMany(call[c].req)
        /\ call[c].req.json.truthy
        /\ call[c].result.kind = "ok"
        /\ call[c].attempts >= 1
        /\ call[c].cache_ops = 0
        /\ DOMAIN cache # {}

\* C32: invalidate_all_checks() removes every check-cache entry stored under
\* the manager's prefix, single-check entries and check_many entries alike,
\* and returns the number removed; afterwards get_check_result and
\* get_check_many_result are a miss for the request that was stored
C32_InvalidateAllRemovesEveryCheckEntry ==
    \A c \in callers :
        op[c].kind = "invalidate_all_checks"
        => /\ DOMAIN cache = {}
           /\ op[c].deleted = Cardinality(DOMAIN op[c].before)
           /\ op[c].after = "set_check_result"
              => StoreGet("memory", "ok", cache,
                          _build_check_key(op[c].stored.subjects, Scope, Action,
                                           op[c].stored.tenant_id, None),
                          now).status = "miss"
           /\ op[c].after = "set_check_many_result"
              => StoreGet("memory", "ok", cache,
                          _build_check_many_key(_hash_checks(op[c].stored.checks)),
                          now).status = "miss"

C34_CheckKeyInjective ==
    \A c \in callers :
        ( /\ op[c].kind = "get_check_result"
          /\ \/ Elems(op[c].subjects) # Elems(op[c].stored.subjects)
             \/ op[c].tenant_id # op[c].stored.tenant_id )
        => /\ _build_check_key(op[c].subjects, Scope, Action, op[c].tenant_id, None)
                # _build_check_key(op[c].stored.subjects, Scope, Action,
                                   op[c].stored.tenant_id, None)
           /\ Cardinality(DOMAIN cache) = 1 => op[c].status = "miss"

\* C35: the statement after the retry loop, raise ServerError("Maximum
\* retries exceeded"), is never reached: every iteration of the loop (of
\* both transports) returns, raises, or waits and is followed by another
\* iteration, whose index is at most max_retries; no request ends with that
\* error, which alone among the ServerErrors carries no status
C35_LoopNeverFallsThrough ==
    [][ \A c \in callers :
          ( /\ call[c].pc = "sending"
            /\ call'[c].attempts = call[c].attempts + 1 )
          => /\ ~ ( /\ call'[c].http_result.kind = "error"
                    /\ call'[c].http_result.err.type = "ServerError"
                    /\ call'[c].http_result.err.status = 0 )
             /\ \/ /\ call'[c].pc # "sending"
                   /\ call'[c].http_result.kind \in { "ok", "error" }
                   /\ call'[c].waits = call[c].waits
                \/ /\ call'[c].pc = "sending"
                   /\ call'[c].waits = call[c].waits + 1
                   /\ call'[c].attempt = call[c].attempt + 1
                   /\ call'[c].attempt <= config.max_retries ]_vars

\* a request has used up max_retries + 1 = 3 attempts, a network failure and
\* then two timeouts, waiting twice, and the last iteration raised
\* TimeoutError
C35_Witness ==
    \E c \in callers :
        /\ call[c].pc = "done"
        /\ config.max_retries = 2
        /\ call[c].attempts = 3
        /\ call[c].waits = 2
        /\ call[c].networks = 1 /\ call[c].timeouts = 2
        /\ call[c].last_t = "timeout"
        /\ call[c].result.kind = "error"
        /\ call[c].result.err.type = "TimeoutError"

\* c's request is a single check of the sync transport that goes through the
\* cache
CachedCheck(c) ==
    /\ call[c].transport = "sync"
    /\ IsSingleCheck(call[c].req)
    /\ call[c].req.json.truthy
    /\ Caching

\* C36 as stated: after a single check whose HTTP call ended in an error, a
\* later identical check is again a miss
C36_NothingWrittenOnError_AsStated ==
    \A c \in callers :
        ( /\ Done(c) /\ CachedCheck(c)
          /\ call[c].attempts >= 1
          /\ call[c].result.kind = "error" )
        => StoreGet(cache_manager, "ok", cache, CheckKey(call[c].req), now).status = "miss"

\* C36: a single check whose HTTP call ends in an error writes nothing to
\* the cache.  Its lookup adds and changes no entry (over the in-process
\* store it drops the entry of its own key when that entry has expired); no
\* HTTP attempt changes the cache; the attempt that raises ends the request
\* with that error, with no write-through; and an identical check made then
\* is a miss, unless the lookup failed to read the store
C36_NothingWrittenOnError ==
    [][ \A c \in callers :
          /\ (LookupStep(c) /\ CachedCheck(c))
             => \/ cache' = cache
                \/ /\ cache_manager = "memory"
                   /\ CheckKey(call[c].req) \in DOMAIN cache
                   /\ now > cache[CheckKey(call[c].req)].expires_at
                   /\ cache' = Restrict(cache, DOMAIN cache \ { CheckKey(call[c].req) })
          /\ ( /\ call[c].pc = "sending" /\ CachedCheck(c)
               /\ call'[c].attempts = call[c].attempts + 1 )
             => /\ cache' = cache
                /\ call'[c].http_result.kind = "error"
                   => /\ call'[c].pc = "done"
                      /\ call'[c].result = call'[c].http_result
                      /\ call'[c].cache_ops = 1
                      /\ \/ call[c].faulted
                         \/ StoreGet(cache_manager, "ok", cache', CheckKey(call[c].req),
                                     now).status = "miss" ]_vars

\* a single check has ended in TimeoutError after its retries while the
\* cache held the decision of another check: the cache still holds that
\* entry alone
C36_Witness ==
    \E c \in callers :
        /\ Done(c) /\ CachedCheck(c)
        /\ cache_manager \in { "memory", "redis" }
        /\ call[c].attempts = config.max_retries + 1
        /\ call[c].result.kind = "error"
        /\ call[c].result.err.type = "TimeoutError"
        /\ call[c].cache_ops = 1
        /\ ~ call[c].faulted
        /\ Cardinality(DOMAIN cache) = 1
        /\ CheckKey(call[c].req) \notin DOMAIN cache

\* a request that is not a POST to the permissions check / grant / revoke
\* family, or a check request with an empty body
PassesThrough(r) ==
    \/ r.method # "POST"
    \/ r.endpoint \notin { EP_check, EP_check_many, EP_grant, EP_grant_many,
                           EP_revoke, EP_revoke_many }
    \/ r.endpoint \in { EP_check, EP_check_many } /\ ~ r.json.truthy

\* C37: passthrough requests and check requests with an empty body never
\* read, write or invalidate the cache: with a cache manager present, such a
\* request goes straight to the HTTP call, none of its steps calls the cache
\* manager or changes the cache, and it ends only after an HTTP attempt
C37_PassthroughBypassesCache ==
    [][ \A c \in callers :
          ( /\ call'[c] # call[c]
            /\ Caching'
            /\ call[c].transport = "sync" /\ call'[c].transport = "sync"
            /\ \/ call[c].pc # "idle" /\ PassesThrough(call[c].req)
               \/ call'[c].pc # "idle" /\ PassesThrough(call'[c].req) )
          => /\ cache' = cache
             /\ call'[c].cache_ops = 0
             /\ call'[c].deletes = 0
             /\ call'[c].pending = {}
             /\ call'[c].pc \in { "idle", "sending", "done" }
             /\ call'[c].pc = "done" => call'[c].attempts >= 1 ]_vars

\* a POST to /api/v1/limits/check with a body has been answered while the
\* cache held an entry, without a call of the cache manager
C37_Witness ==
    \E c \in callers :
        /\ Done(c) /\ Caching
        /\ cache_manager \in { "memory", "redis" }
        /\ call[c].req.method = "POST"
        /\ call[c].req.endpoint = EP_limits_check
        /\ call[c].req.json.truthy
        /\ call[c].result.kind = "ok"
        /\ call[c].attempts >= 1
        /\ call[c].cache_ops = 0
        /\ DOMAIN cache # {}

C39_SharedAttemptCounter ==
    \A c \in callers :
        ( /\ call[c].attempts >= 1
          /\ call[c].timeouts + call[c].networks = call[c].attempts )
        => /\ call[c].pc \in { "sending", "done" }
           /\ call[c].pc = "sending"
              => /\ call[c].attempt = call[c].timeouts + call[c].networks
                 /\ call[c].waits = call[c].attempts
                 /\ call[c].attempts <= config.max_retries
           /\ call[c].pc = "done"
              => /\ call[c].attempts = config.max_retries + 1
                 /\ call[c].waits = config.max_retries
                 /\ call[c].result.kind = "error"
                 /\ call[c].last_t = "timeout"
                    => /\ call[c].result.err.type = "TimeoutError"
                       /\ call[c].result.err.timeout = config.timeout
                 /\ call[c].last_t = "network"
                    => call[c].result.err.type = "NetworkError"

\* two timeouts and then a network failure have used up the three attempts
\* of a request, which raised NetworkError
C39_Witness ==
    \E c \in callers :
        /\ call[c].pc = "done"
        /\ config.max_retries = 2
        /\ call[c].attempts = 3
        /\ call[c].timeouts = 2 /\ call[c].networks = 1
        /\ call[c].last_t = "network"
        /\ call[c].waits = 2
        /\ call[c].result.kind = "error"
        /\ call[c].result.err.type = "NetworkError"

====
